---- MODULE Spec2Model ----
(***************************************************************************)
(* A model of the WAV library: the TAC container (src/binary/encode.ts,    *)
(* class TAC), the WAV encoder (src/binary/encode.ts, encode) and the WAV  *)
(* decoder (src/vendor/node-wav-decode.ts, decode).                        *)
(*                                                                         *)
(* Representation                                                          *)
(*   - a byte buffer (Uint8Array / ArrayBuffer) is a sequence of 0..255;   *)
(*     byte offset p of the code is element p + 1 of the sequence;         *)
(*   - a Float32Array element is the tuple of the four bytes that hold it  *)
(*     in memory (little-endian IEEE-754 binary32), so that the arena can  *)
(*     be reinterpreted from bytes as TAC.from does;                       *)
(*   - a string is the sequence of its code points; TextEncoder,           *)
(*     TextDecoder are the UTF-8 operators below;                          *)
(*   - a Map is the sequence of its entries in insertion order, each with  *)
(*     the key it is stored under.                                         *)
(***************************************************************************)
EXTENDS Integers, Sequences, FiniteSets, TLC

\* ------------------------------------------------------------------ bounds
\* Longest channel handed to writeEntry, in samples.
MaxSamples == 1
\* Largest number of channels handed to writeEntry.
MaxChannels == 2
\* The arena never grows beyond this many samples in the model.
MaxArena == 3
\* The cached dictLength never grows beyond this many bytes in the model.
MaxDictLength == 50
\* Most entries in a container that is encoded.
MaxCodecEntries == 2
\* Most bytes cut from the end of an encoded buffer before it is decoded.
MaxCut == 20
\* Most channels handed to encode.
MaxWavChannels == 2
\* Longest channel handed to encode, in frames.
MaxFrames == 2
\* Most unknown chunks before, and after, the data chunk of a file.
MaxUnknownChunks == 1
\* Most frames in the data chunk of a file.
MaxDataFrames == 1
\* Most entries in the dictionary of a cache file.
MaxFileEntries == 2
\* Longest arena of a cache file, in samples.
MaxFileArena == 2
\* Most calls on a WAVCache after its construction.
MaxCacheOps == 3
\* Largest sampleCount an entry of a cache file declares.
MaxFileSamples == 2
\* Most payload bytes after the 44-byte header of a file handed to decode.
MaxPayload == 4
\* Longest entry name of the containers with long names, in bytes.
MaxNameLength == 257
\* Largest dictLength of those containers: two entries of the longest name.
MaxLongDictLength == 544

\* ------------------------------------------------------------- sequences
RECURSIVE SumSeq(_)
SumSeq(s) == IF s = <<>> THEN 0 ELSE Head(s) + SumSeq(Tail(s))

RECURSIVE Flatten(_)
Flatten(ss) == IF ss = <<>> THEN <<>> ELSE Head(ss) \o Flatten(Tail(ss))

Min(a, b) == IF a < b THEN a ELSE b
Max(a, b) == IF a > b THEN a ELSE b

\* TypedArray.prototype.subarray(begin, end): a negative index counts from
\* the end, both ends are clamped to the length, and an empty view results
\* when end <= begin.
subarray(arr, begin, end) ==
    LET b == IF begin < 0 THEN Max(Len(arr) + begin, 0) ELSE Min(begin, Len(arr))
        e == IF end < 0 THEN Max(Len(arr) + end, 0) ELSE Min(end, Len(arr))
    IN  IF e <= b THEN <<>> ELSE SubSeq(arr, b + 1, e)

\* concatTypedArray(a, b, ...) of @aurellis/helpers.
concatTypedArray(arrs) == Flatten(arrs)

\* ------------------------------------------------------ binary32 samples
\* 1.0, 0.5 and -1.0 as stored in a Float32Array (little-endian).
F32One == <<0, 0, 128, 63>>
F32Half == <<0, 0, 0, 63>>
F32MinusOne == <<0, 0, 128, 191>>

F32Sign(x) == x[4] \div 128
F32Exp(x) == (x[4] % 128) * 2 + (x[3] \div 128)
F32Frac(x) == (x[3] % 128) * 65536 + x[2] * 256 + x[1]
F32IsNaN(x) == F32Exp(x) = 255 /\ F32Frac(x) # 0
F32IsZero(x) == F32Exp(x) = 0 /\ F32Frac(x) = 0

\* x >= 1 on binary32 values (false for NaN).
F32GeOne(x) ==
    /\ ~F32IsNaN(x)
    /\ F32Sign(x) = 0
    /\ F32Exp(x) >= 127

\* x <= 1 on binary32 values (false for NaN).
F32LeOne(x) ==
    /\ ~F32IsNaN(x)
    /\ \/ F32Sign(x) = 1
       \/ F32Exp(x) < 127
       \/ F32Exp(x) = 127 /\ F32Frac(x) = 0

\* ------------------------------------------------------------------ UTF-8
\* new TextEncoder().encode(name): the UTF-8 bytes of a sequence of code
\* points (no surrogates occur in the model), code point by code point.
Utf8EncodeCp(cp) ==
    IF cp < 128 THEN <<cp>>
    ELSE IF cp < 2048 THEN <<192 + (cp \div 64), 128 + (cp % 64)>>
    ELSE IF cp < 65536
         THEN <<224 + (cp \div 4096), 128 + ((cp \div 64) % 64), 128 + (cp % 64)>>
    ELSE <<240 + (cp \div 262144), 128 + ((cp \div 4096) % 64),
           128 + ((cp \div 64) % 64), 128 + (cp % 64)>>

\* new TextEncoder().encode(name), by halves of the string.
RECURSIVE TextEncodeRange(_, _, _)
TextEncodeRange(str, lo, hi) ==
    IF lo > hi THEN <<>>
    ELSE IF lo = hi THEN Utf8EncodeCp(str[lo])
    ELSE LET mid == (lo + hi) \div 2
         IN  TextEncodeRange(str, lo, mid) \o TextEncodeRange(str, mid + 1, hi)

TextEncode(str) == TextEncodeRange(str, 1, Len(str))

\* new TextDecoder().decode(bytes): the WHATWG UTF-8 decoder with
\* replacement (U+FFFD) of every malformed sequence.  A lead byte b asks
\* for Utf8Needed(b) continuation bytes, the first of them within
\* Utf8Lower(b)..Utf8Upper(b), the others within 128..191.
Utf8IsLead(b) == b >= 194 /\ b <= 244

Utf8Needed(b) == IF b <= 223 THEN 1 ELSE IF b <= 239 THEN 2 ELSE 3

Utf8Lower(b) == IF b = 224 THEN 160 ELSE IF b = 240 THEN 144 ELSE 128

Utf8Upper(b) == IF b = 237 THEN 159 ELSE IF b = 244 THEN 143 ELSE 191

\* The continuation bytes the decoder takes after the lead byte at j: it
\* stops at the first byte out of bounds (which it reads again as the
\* start of the next sequence) and at the end of the input.
Utf8Accepted(bytes, j) ==
    LET b == bytes[j]
        ok(m) == /\ j + m <= Len(bytes)
                 /\ bytes[j + m] >= (IF m = 1 THEN Utf8Lower(b) ELSE 128)
                 /\ bytes[j + m] <= (IF m = 1 THEN Utf8Upper(b) ELSE 191)
    IN  IF ~ok(1) THEN 0
        ELSE IF Utf8Needed(b) = 1 \/ ~ok(2) THEN 1
        ELSE IF Utf8Needed(b) = 2 \/ ~ok(3) THEN 2
        ELSE 3

\* The byte at i is taken as a continuation byte of a lead byte before it.
Utf8Consumed(bytes, i) ==
    \E j \in Max(1, i - 3)..(i - 1) :
        Utf8IsLead(bytes[j]) /\ i - j <= Utf8Accepted(bytes, j)

\* What the decoder emits for the sequence that starts at i: the code
\* point, U+FFFD for a malformed or unfinished sequence, or nothing (-1)
\* when the byte was taken by the sequence before it.
Utf8Emitted(bytes, i) ==
    LET b == bytes[i] IN
    IF Utf8Consumed(bytes, i) THEN -1
    ELSE IF b < 128 THEN b
    ELSE IF ~Utf8IsLead(b) THEN 65533
    ELSE IF Utf8Accepted(bytes, i) < Utf8Needed(b) THEN 65533
    ELSE IF Utf8Needed(b) = 1 THEN (b % 32) * 64 + (bytes[i + 1] % 64)
    ELSE IF Utf8Needed(b) = 2
         THEN (b % 16) * 4096 + (bytes[i + 1] % 64) * 64 + (bytes[i + 2] % 64)
    ELSE (b % 8) * 262144 + (bytes[i + 1] % 64) * 4096
         + (bytes[i + 2] % 64) * 64 + (bytes[i + 3] % 64)

\* The decoder drops one leading byte order mark (ignoreBOM is false).
TextDecode(bytes) ==
    LET str == SelectSeq([i \in DOMAIN bytes |-> Utf8Emitted(bytes, i)],
                         LAMBDA cp : cp # -1)
    IN  IF str # <<>> /\ Head(str) = 65279 THEN Tail(str) ELSE str

\* ------------------------------------------------------------ Map<K, V>
\* A Map is the sequence of its entries in insertion order; every entry
\* carries, next to the fields of TacDictEntry, the key it is stored under.
MapHas(m, k) == \E i \in DOMAIN m : m[i].key = k

MapGet(m, k) == m[CHOOSE i \in DOMAIN m : m[i].key = k]

MapDelete(m, k) == SelectSeq(m, LAMBDA e : e.key # k)

\* Map.set: an existing key keeps its place, a new key goes last.
MapSet(m, k, v) ==
    LET e == [v EXCEPT !.key = k]
    IN  IF MapHas(m, k)
        THEN [i \in DOMAIN m |-> IF m[i].key = k THEN e ELSE m[i]]
        ELSE Append(m, e)

MapKeys(m) == {m[i].key : i \in DOMAIN m}

\* -------------------------------------------------------------------- WAV
\* hasValidSampleCount without the comparison of the channel lengths.
hasValidSampleCountNoLength(wav) ==
    \A c \in DOMAIN wav.raw :
        \A x \in DOMAIN wav.raw[c] :
            F32GeOne(wav.raw[c][x]) /\ F32LeOne(wav.raw[c][x])

\* WAV.hasValidSampleCount: every channel is as long as the first one and
\* every sample x satisfies x >= 1 && x <= 1.
hasValidSampleCount(wav) ==
    \A c \in DOMAIN wav.raw :
        /\ Len(wav.raw[c]) = Len(wav.raw[1])
        /\ \A x \in DOMAIN wav.raw[c] :
               F32GeOne(wav.raw[c][x]) /\ F32LeOne(wav.raw[c][x])

\* -------------------------------------------------------------------- TAC
DICT_ENTRY_BASE_LENGTH == 15
DICT_NAME_MAX_LENGTH == 256

\* new TAC(): the empty container.
NewTAC == [dictLength |-> 0, dict |-> <<>>, dataChunk |-> <<>>]

entryDataLength(entry) == entry.sampleCount * entry.channelCount

\* The shift of the offsets in removeEntry, with >= for >.
removeEntryShiftGe(e, entry, dataLength) ==
    IF e.indexOffset >= entry.indexOffset
    THEN [e EXCEPT !.indexOffset = e.indexOffset - dataLength]
    ELSE e

\* The shift of the offsets in removeEntry left out.
removeEntryNoShift(e, entry, dataLength) == e

\* The shift of the offsets in removeEntry applied to every entry.
removeEntryShiftAll(e, entry, dataLength) ==
    [e EXCEPT !.indexOffset = e.indexOffset - dataLength]

\* removeEntry, the body of dict.forEach: an entry stored after the removed
\* one moves down by the removed length.
removeEntryShift(e, entry, dataLength) ==
    IF e.indexOffset > entry.indexOffset
    THEN [e EXCEPT !.indexOffset = e.indexOffset - dataLength]
    ELSE e

\* removeEntry that takes the entry's bytes off dictLength before it looks
\* the name up.
removeEntrySubtractsFirst(tac, entryName) ==
    IF MapHas(tac.dict, entryName)
    THEN LET entry == MapGet(tac.dict, entryName)
             nameLength == Len(TextEncode(entry.name))
             dataLength == entryDataLength(entry)
             shifted == [i \in DOMAIN tac.dict |->
                            removeEntryShift(tac.dict[i], entry, dataLength)]
         IN  [dictLength |-> tac.dictLength - (DICT_ENTRY_BASE_LENGTH + nameLength),
              dict |-> MapDelete(shifted, entryName),
              dataChunk |->
                  concatTypedArray(<<
                      subarray(tac.dataChunk, 0, entry.indexOffset),
                      subarray(tac.dataChunk, entry.indexOffset + dataLength,
                               Len(tac.dataChunk)) >>)]
    ELSE [tac EXCEPT !.dictLength =
             tac.dictLength - (DICT_ENTRY_BASE_LENGTH + Len(TextEncode(entryName)))]

\* TAC.removeEntry(entryName).
removeEntry(tac, entryName) ==
    IF MapHas(tac.dict, entryName)
    THEN LET entry == MapGet(tac.dict, entryName)
             nameLength == Len(TextEncode(entry.name))
             dataLength == entryDataLength(entry)
             shifted == [i \in DOMAIN tac.dict |->
                            removeEntryShift(tac.dict[i], entry, dataLength)]
         IN  [dictLength |-> tac.dictLength - (DICT_ENTRY_BASE_LENGTH + nameLength),
              dict |-> MapDelete(shifted, entryName),
              dataChunk |->
                  concatTypedArray(<<
                      subarray(tac.dataChunk, 0, entry.indexOffset),
                      subarray(tac.dataChunk, entry.indexOffset + dataLength,
                               Len(tac.dataChunk)) >>)]
    ELSE tac

\* writeEntry that stores the new entry at offset 0.
writeEntryAtZero(tac, entryName, wav) ==
    IF ~hasValidSampleCount(wav)
    THEN tac
    ELSE LET dict1 == IF MapHas(tac.dict, entryName)
                      THEN MapDelete(tac.dict, entryName)
                      ELSE tac.dict
             thisEntry ==
                 [key |-> entryName,
                  sampleCount |-> IF wav.raw = <<>> THEN 0 ELSE Len(wav.raw[1]),
                  channelCount |-> Len(wav.raw),
                  sampleRate |-> wav.sampleRate,
                  indexOffset |-> 0,
                  nameLength |-> Len(TextEncode(entryName)),
                  name |-> entryName]
         IN  [dictLength |-> tac.dictLength
                               + DICT_ENTRY_BASE_LENGTH + thisEntry.nameLength,
              dict |-> MapSet(dict1, entryName, thisEntry),
              dataChunk |-> concatTypedArray(<<tac.dataChunk>> \o wav.raw)]

\* TAC.writeEntry(entryName, wav).
writeEntry(tac, entryName, wav) ==
    IF ~hasValidSampleCount(wav)
    THEN tac
    ELSE LET dict1 == IF MapHas(tac.dict, entryName)
                      THEN MapDelete(tac.dict, entryName)
                      ELSE tac.dict
             thisEntry ==
                 [key |-> entryName,
                  sampleCount |-> IF wav.raw = <<>> THEN 0 ELSE Len(wav.raw[1]),
                  channelCount |-> Len(wav.raw),
                  sampleRate |-> wav.sampleRate,
                  indexOffset |-> Len(tac.dataChunk),
                  nameLength |-> Len(TextEncode(entryName)),
                  name |-> entryName]
         IN  [dictLength |-> tac.dictLength
                               + DICT_ENTRY_BASE_LENGTH + thisEntry.nameLength,
              dict |-> MapSet(dict1, entryName, thisEntry),
              dataChunk |-> concatTypedArray(<<tac.dataChunk>> \o wav.raw)]

\* readEntry that slices every channel with the channel count as stride.
readEntryChannelStride(tac, entryName) ==
    IF ~MapHas(tac.dict, entryName)
    THEN [sampleRate |-> 44100, channelData |-> <<>>]
    ELSE LET entry == MapGet(tac.dict, entryName)
         IN  [sampleRate |-> entry.sampleRate,
              channelData |->
                  [i \in 1..entry.channelCount |->
                      subarray(tac.dataChunk,
                               entry.indexOffset + (i - 1) * entry.channelCount,
                               entry.indexOffset + i * entry.channelCount)]]

\* TAC.readEntry(entryName).
readEntry(tac, entryName) ==
    IF ~MapHas(tac.dict, entryName)
    THEN [sampleRate |-> 44100, channelData |-> <<>>]
    ELSE LET entry == MapGet(tac.dict, entryName)
         IN  [sampleRate |-> entry.sampleRate,
              channelData |->
                  [i \in 1..entry.channelCount |->
                      subarray(tac.dataChunk,
                               entry.indexOffset + (i - 1) * entry.sampleCount,
                               entry.indexOffset + i * entry.sampleCount)]]

\* ----------------------------------------------------------- DataView
\* DataView.getUint8 / getUint16 / getUint32 without the littleEndian flag
\* (big-endian) at byte offset pos.  The model only meets values below 2^31.
CanRead(raw, pos, n) == pos >= 0 /\ pos + n <= Len(raw)

GetUint8(raw, pos) == raw[pos + 1]

GetUint16BE(raw, pos) == raw[pos + 1] * 256 + raw[pos + 2]

GetUint32BE(raw, pos) ==
    raw[pos + 1] * 16777216 + raw[pos + 2] * 65536 + raw[pos + 3] * 256 + raw[pos + 4]

\* new Float32Array(buffer, byteOffset, length): the RangeError conditions.
\* lengthTimes4 is the length argument before its division by 4; the
\* constructor truncates the quotient towards zero (ToIndex).
Float32ArrayThrows(buffer, byteOffset, lengthTimes4) ==
    \/ byteOffset % 4 # 0
    \/ lengthTimes4 <= -4
    \/ byteOffset + 4 * (Max(lengthTimes4, 0) \div 4) > Len(buffer)

\* new Float32Array(buffer, byteOffset, length) when it does not throw.
Float32ArrayOf(buffer, byteOffset, lengthTimes4) ==
    [i \in 1..(Max(lengthTimes4, 0) \div 4) |->
        SubSeq(buffer, byteOffset + 4 * (i - 1) + 1, byteOffset + 4 * i)]

\* ---------------------------------------------------------------- TAC.from
\* The loop of TAC.from inside try/catch: a read past the end of the buffer
\* throws a RangeError, which ends the walk with the entries read so far.
RECURSIVE fromWalk(_, _, _, _)
fromWalk(raw, cursor, dictLength, dict) ==
    IF ~(cursor < dictLength + 4)
    THEN dict
    ELSE IF \/ ~CanRead(raw, cursor, 4)
            \/ ~CanRead(raw, cursor + 4, 4)
            \/ ~CanRead(raw, cursor + 8, 4)
            \/ ~CanRead(raw, cursor + 12, 2)
            \/ ~CanRead(raw, cursor + 14, 1)
         THEN dict
         ELSE LET nameLength == GetUint8(raw, cursor + 14)
                  name == TextDecode(subarray(raw, cursor + 15,
                                              cursor + 15 + nameLength))
                  thisEntry ==
                      [key |-> name,
                       indexOffset |-> GetUint32BE(raw, cursor),
                       sampleRate |-> GetUint32BE(raw, cursor + 4),
                       sampleCount |-> GetUint32BE(raw, cursor + 8),
                       channelCount |-> GetUint16BE(raw, cursor + 12),
                       nameLength |-> nameLength,
                       name |-> name]
              IN  fromWalk(raw, cursor + 15 + nameLength, dictLength,
                           MapSet(dict, name, thisEntry))

\* TAC.from(raw), for a raw that owns its ArrayBuffer (byteOffset 0, as
\* Deno.readFileSync returns it).  threw: the call ended in an exception.
from(raw) ==
    LET dictLength == IF Len(raw) >= 4 THEN GetUint32BE(raw, 0) ELSE 0
    IN  IF Float32ArrayThrows(raw, dictLength + 4, Len(raw) - dictLength - 4)
        THEN [threw |-> TRUE, dictLength |-> 0, dict |-> <<>>, dataChunk |-> <<>>]
        ELSE [threw |-> FALSE,
              dictLength |-> dictLength,
              dict |-> fromWalk(raw, 4, dictLength, <<>>),
              dataChunk |-> Float32ArrayOf(raw, dictLength + 4,
                                           Len(raw) - dictLength - 4)]

\* ------------------------------------------------------------ TAC.validate
\* TAC.validate, the body of dict.forEach for one entry: nameLength is set
\* from the encoded name, and a name longer than DICT_NAME_MAX_LENGTH bytes
\* is cut (the key the entry is stored under stays).
validateName(entry) ==
    LET encodedName == TextEncode(entry.name)
    IN  IF Len(encodedName) > DICT_NAME_MAX_LENGTH
        THEN [entry EXCEPT
                 !.name = TextDecode(SubSeq(encodedName, 1, DICT_NAME_MAX_LENGTH)),
                 !.nameLength = DICT_NAME_MAX_LENGTH]
        ELSE [entry EXCEPT !.nameLength = Len(encodedName)]

\* TAC.validate: the two range checks of an entry.
validateRange(entry, arenaLength) ==
    /\ ~(entry.indexOffset >= arenaLength)
    /\ ~(entry.indexOffset + entryDataLength(entry) > arenaLength)

\* invalidEntries.forEach(e => this.removeEntry(e))
RECURSIVE removeEntries(_, _)
removeEntries(tac, names) ==
    IF names = <<>> THEN tac
    ELSE removeEntries(removeEntry(tac, Head(names)), Tail(names))

\* TAC.validate(alreadyValidated).  The dictLength it sums up is a local
\* variable that is never stored.
RECURSIVE validate(_, _)
validate(tac, alreadyValidated) ==
    LET named == [i \in DOMAIN tac.dict |-> validateName(tac.dict[i])]
        invalid == SelectSeq(named,
                       LAMBDA e : ~validateRange(e, Len(tac.dataChunk)))
        invalidEntries == [i \in DOMAIN invalid |-> invalid[i].name]
        tac1 == [tac EXCEPT !.dict = named]
    IN  IF invalidEntries # <<>>
        THEN LET tac2 == removeEntries(tac1, invalidEntries)
             IN  IF ~alreadyValidated THEN validate(tac2, TRUE) ELSE tac2
        ELSE tac1

\* -------------------------------------------------------------- TAC.encode
\* Number -> Uint8 as TypedArray.prototype.set converts a Float32Array
\* element stored into a Uint8Array: truncate, then modulo 256.
F32ToUint8(x) ==
    LET e == F32Exp(x)
        m == 8388608 + F32Frac(x)
        shift == e - 150
        t == IF e = 255 \/ e = 0 THEN 0
             ELSE IF shift >= 8 THEN 0
             ELSE IF shift >= 0 THEN (m * (2 ^ shift)) % 256
             ELSE IF shift < -23 THEN 0
             ELSE (m \div (2 ^ (0 - shift))) % 256
    IN  IF F32Sign(x) = 0 THEN t ELSE (256 - t) % 256

\* The bytes DataView.setUint32 / setUint16 write without the littleEndian
\* flag (big-endian).
Uint32BE(v) == <<(v \div 16777216) % 256, (v \div 65536) % 256,
                 (v \div 256) % 256, v % 256>>
Uint16BE(v) == <<(v \div 256) % 256, v % 256>>

\* new ArrayBuffer(n): n zero bytes.
ArrayBuffer(n) == [i \in 1..n |-> 0]

\* A write of bytes bs at byte offset pos into the buffer of st; a write
\* past the end throws a RangeError, which ends the call.
Put(st, pos, bs) ==
    IF st.threw \/ bs = <<>> THEN st
    ELSE IF pos < 0 \/ pos + Len(bs) > Len(st.bytes)
         THEN [threw |-> TRUE, bytes |-> st.bytes]
         ELSE [threw |-> FALSE,
               bytes |-> [k \in DOMAIN st.bytes |->
                             IF k > pos /\ k <= pos + Len(bs)
                             THEN bs[k - pos] ELSE st.bytes[k]]]

\* TAC.encode, the body of dict.forEach for the entry x: the cursor is not
\* moved past the name length byte, so the name is written from that byte.
encodeEntry(st, cursor, x) ==
    LET s1 == Put(st, cursor, Uint32BE(x.indexOffset))
        s2 == Put(s1, cursor + 4, Uint32BE(x.sampleRate))
        s3 == Put(s2, cursor + 8, Uint32BE(x.sampleCount))
        s4 == Put(s3, cursor + 12, Uint16BE(x.channelCount))
        s5 == Put(s4, cursor + 14, <<x.nameLength % 256>>)
        encodedString == TextEncode(x.name)
    IN  [st |-> Put(s5, cursor + 14, encodedString),
         cursor |-> cursor + 14 + Len(encodedString)]

RECURSIVE encodeDict(_, _, _, _)
encodeDict(d, i, cursor, st) ==
    IF i > Len(d) THEN st
    ELSE LET r == encodeEntry(st, cursor, d[i])
         IN  encodeDict(d, i + 1, r.cursor, r.st)

\* TAC.encode() on the validated container tac: the bytes, or threw.
TAC_encodeBytes(tac) ==
    LET size == tac.dictLength + 4 * Len(tac.dataChunk) + 4
    IN  IF size < 0
        THEN [threw |-> TRUE, bytes |-> <<>>]
        ELSE LET s0 == [threw |-> FALSE, bytes |-> ArrayBuffer(size)]
                 s1 == IF size < 4 THEN [threw |-> TRUE, bytes |-> s0.bytes]
                       ELSE Put(s0, 0, Uint32BE(tac.dictLength))
                 s2 == encodeDict(tac.dict, 1, 4, s1)
             IN  Put(s2, tac.dictLength + 4,
                     [i \in DOMAIN tac.dataChunk |-> F32ToUint8(tac.dataChunk[i])])

\* TAC.encode(): validate, then serialize.  tac is the container as
\* validate left it.
TAC_encode(tac) ==
    LET valid == validate(tac, FALSE)
    IN  [tac |-> valid, out |-> TAC_encodeBytes(valid)]

\* ------------------------------------------------------------- WAV encode
\* WAVFormat strings, as sequences of characters.
Fmt8Int == <<"8", "-", "b", "i", "t", " ", "I", "n", "t">>
Fmt16Int == <<"1", "6", "-", "b", "i", "t", " ", "I", "n", "t">>
Fmt24Int == <<"2", "4", "-", "b", "i", "t", " ", "I", "n", "t">>
Fmt32Int == <<"3", "2", "-", "b", "i", "t", " ", "I", "n", "t">>
Fmt32Float == <<"3", "2", "-", "b", "i", "t", " ", "F", "l", "o", "a", "t">>

Digits == <<"0", "1", "2", "3", "4", "5", "6", "7", "8", "9">>
IsDigit(c) == \E d \in DOMAIN Digits : Digits[d] = c
DigitOf(c) == (CHOOSE d \in DOMAIN Digits : Digits[d] = c) - 1

\* Number(str) for a string of two characters: NaN unless both are digits.
Number(str) ==
    IF \A i \in DOMAIN str : IsDigit(str[i])
    THEN [nan |-> FALSE, val |-> 10 * DigitOf(str[1]) + DigitOf(str[2])]
    ELSE [nan |-> TRUE, val |-> 0]

\* The bytes DataView.setUint16 / setUint32 / setInt16 / setInt32 write
\* with the littleEndian flag (two's complement for a negative v).
Uint16LE(v) == <<v % 256, (v \div 256) % 256>>
Uint32LE(v) == <<v % 256, (v \div 256) % 256, (v \div 65536) % 256,
                 (v \div 16777216) % 256>>

\* A sample of channelData times 4, for the samples of the model, which
\* are multiples of 1/4 of magnitude at most 2.
F32Quarters(x) ==
    LET m == 8388608 + F32Frac(x)
        q == IF F32Exp(x) < 125 THEN 0 ELSE m \div (2 ^ (148 - F32Exp(x)))
    IN  IF F32Sign(x) = 0 THEN q ELSE 0 - q

\* clamp(value, [-1, 1]) of @aurellis/helpers, on quarters and on the
\* stored sample.
clampQuarters(k) == Max(-4, Min(4, k))
clampF32(x) ==
    IF F32Quarters(x) > 4 THEN F32One
    ELSE IF F32Quarters(x) < -4 THEN F32MinusOne
    ELSE x

\* Math.round(k / 4 * scale): round half up, without leaving 32 bits.
RoundQuarters(k, scale) ==
    k * (scale \div 4) + ((2 * k * (scale % 4) + 4) \div 8)

\* encoders.i8 ... encoders.f32: the bytes written for value at pos.
encoders_i8(value) ==
    LET n == (clampQuarters(F32Quarters(value)) + 4) * 255
    IN  <<((2 * n + 8) \div 16) % 256>>

encoders_i16(value) ==
    Uint16LE(RoundQuarters(clampQuarters(F32Quarters(value)), 32767))

encoders_i24(value) ==
    LET scaled == RoundQuarters(clampQuarters(F32Quarters(value)), 8388607)
        v == IF scaled < 0 THEN scaled + 16777216 ELSE scaled
    IN  <<v % 256, (v \div 256) % 256, (v \div 65536) % 256>>

encoders_i32(value) ==
    Uint32LE(RoundQuarters(clampQuarters(F32Quarters(value)), 2147483647))

encoders_f32(value) == clampF32(value)

\* getEncoder(float, bits): the encoder of the key, encoders.i8 when the
\* table has no such key (bits is a Number(...) result).
getEncoder(float, bits, value) ==
    IF bits.nan THEN encoders_i8(value)
    ELSE IF float /\ bits.val = 32 THEN encoders_f32(value)
    ELSE IF ~float /\ bits.val = 16 THEN encoders_i16(value)
    ELSE IF ~float /\ bits.val = 24 THEN encoders_i24(value)
    ELSE IF ~float /\ bits.val = 32 THEN encoders_i32(value)
    ELSE encoders_i8(value)

\* ArrOp.interleave(...channelData) of @aurellis/helpers for channels of
\* equal length: frame 0 of every channel, then frame 1, ...
interleave(channelData) ==
    IF channelData = <<>> THEN <<>>
    ELSE [i \in 1..(Len(channelData) * Len(channelData[1])) |->
             channelData[((i - 1) % Len(channelData)) + 1]
                        [((i - 1) \div Len(channelData)) + 1]]

\* encode: the byte offset of interleaved sample i (from 0),
\* 44 + (i / 4) * (bitDepth / 8), truncated by the DataView setter.
samplePosition(i, bitDepth) == 44 + ((i * bitDepth) \div 32)

\* encode, the loop over interleavedSamples from index i on.
RECURSIVE encodeSamples(_, _, _, _, _)
encodeSamples(samples, i, float, bits, st) ==
    IF i >= Len(samples) \/ st.threw THEN st
    ELSE encodeSamples(samples, i + 1, float, bits,
             Put(st, samplePosition(i, bits.val),
                 getEncoder(float, bits, samples[i + 1])))

\* Block align with the division by 8 left out.
bytesPerBlockInBits(channelCount, bitDepth) == channelCount * bitDepth

\* encode: bytesPerBlock.
bytesPerBlock(channelCount, bitDepth) == (channelCount * bitDepth) \div 8

\* encode(channelData, sampleRate, format): the bytes, or threw.  Number
\* is NaN for "8-": the sizes are then NaN, new ArrayBuffer(NaN) has no
\* bytes and the first header write throws a RangeError.
encode(channelData, sampleRate, format) ==
    LET channelCount == Len(channelData)
        bits == Number(SubSeq(format, 1, 2))
        bitDepth == bits.val
        bytesPerSec == (sampleRate * channelCount * bitDepth) \div 8
        audioDataLength ==
            IF channelCount = 0 THEN 0
            ELSE Len(channelData[1]) * channelCount * (bitDepth \div 8)
        float == format[Len(format) - 1] = "a"
        outputBuffer == ArrayBuffer(IF bits.nan THEN 0 ELSE 44 + audioDataLength)
        h0 == [threw |-> channelCount = 0, bytes |-> outputBuffer]
        h1 == Put(h0, 0, Uint32BE(1380533830))
        h2 == Put(h1, 4, Uint32LE(36 + audioDataLength))
        h3 == Put(h2, 8, Uint32BE(1463899717))
        h4 == Put(h3, 12, Uint32BE(1718449184))
        h5 == Put(h4, 16, Uint32LE(16))
        h6 == Put(h5, 20, Uint16LE(IF float THEN 3 ELSE 1))
        h7 == Put(h6, 22, Uint16LE(channelCount))
        h8 == Put(h7, 24, Uint32LE(sampleRate))
        h9 == Put(h8, 28, Uint32LE(bytesPerSec))
        h10 == Put(h9, 32, Uint16LE(bytesPerBlock(channelCount, bitDepth)))
        h11 == Put(h10, 34, Uint16LE(bitDepth))
        h12 == Put(h11, 36, Uint32BE(1684108385))
        h13 == Put(h12, 40, Uint32LE(audioDataLength))
    IN  encodeSamples(interleave(channelData), 0, float, bits, h13)

\* ------------------------------------------------------------- WAV decode
\* DataView.getUint16 / getUint32 with the littleEndian flag.  The model
\* only meets values below 2^31.
GetUint16LE(raw, pos) == raw[pos + 1] + raw[pos + 2] * 256

GetUint32LE(raw, pos) ==
    raw[pos + 1] + raw[pos + 2] * 256 + raw[pos + 3] * 65536
    + raw[pos + 4] * 16777216

\* An element of an Int16Array / Int32Array over little-endian bytes.
Int16Of(b) == IF b[2] >= 128 THEN b[1] + (b[2] - 256) * 256
              ELSE b[1] + b[2] * 256

Int32Of(b) ==
    b[1] + b[2] * 256 + b[3] * 65536
    + (IF b[4] >= 128 THEN b[4] - 256 ELSE b[4]) * 16777216

\* A value stored into an output Float32Array, kept exact:
\*   "int":   data / 2^(bits-1) when data < 0, data / (2^(bits-1) - 1) else
\*   "float": the binary32 or binary64 value of bytes (little-endian)
\*   "nan":   NaN, from arithmetic on an element past the end of the input
IntSample(data, bits) ==
    [kind |-> "int", data |-> data, bits |-> bits, bytes |-> <<>>]
FloatSample(bytes) ==
    [kind |-> "float", data |-> 0, bits |-> 8 * Len(bytes), bytes |-> bytes]
NaNSample == [kind |-> "nan", data |-> 0, bits |-> 0, bytes |-> <<>>]

\* new Uint8Array / Int16Array / ... (buffer, offset) of elements of width
\* bytes: the RangeError conditions.
TypedArrayThrows(buffer, offset, width) ==
    \/ offset > Len(buffer)
    \/ offset % width # 0
    \/ (Len(buffer) - offset) % width # 0

\* input[pos] of that typed array as its bytes, <<>> for undefined.
TypedArrayAt(buffer, offset, width, pos) ==
    IF offset + width * (pos + 1) <= Len(buffer)
    THEN SubSeq(buffer, offset + width * pos + 1, offset + width * (pos + 1))
    ELSE <<>>

\* data_decoders.pcm8 ... pcm64f: the value stored for the interleaved
\* sample that starts at element pos of the input.
pcm8(buffer, offset, pos) ==
    LET x == TypedArrayAt(buffer, offset, 1, pos)
    IN  IF x = <<>> THEN NaNSample ELSE IntSample(x[1] - 128, 8)

pcm16(buffer, offset, pos) ==
    LET x == TypedArrayAt(buffer, offset, 2, pos)
    IN  IF x = <<>> THEN NaNSample ELSE IntSample(Int16Of(x), 16)

pcm24(buffer, offset, pos) ==
    LET x0 == TypedArrayAt(buffer, offset, 1, pos)
        x1 == TypedArrayAt(buffer, offset, 1, pos + 1)
        x2 == TypedArrayAt(buffer, offset, 1, pos + 2)
        xx == x0[1] + (IF x1 = <<>> THEN 0 ELSE x1[1] * 256)
                    + (IF x2 = <<>> THEN 0 ELSE x2[1] * 65536)
    IN  IF x0 = <<>> THEN NaNSample
        ELSE IntSample(IF xx > 8388608 THEN xx - 16777216 ELSE xx, 24)

pcm32(buffer, offset, pos) ==
    LET x == TypedArrayAt(buffer, offset, 4, pos)
    IN  IF x = <<>> THEN NaNSample ELSE IntSample(Int32Of(x), 32)

pcm32f(buffer, offset, pos) ==
    LET x == TypedArrayAt(buffer, offset, 4, pos)
    IN  IF x = <<>> THEN NaNSample ELSE FloatSample(x)

pcm64f(buffer, offset, pos) ==
    LET x == TypedArrayAt(buffer, offset, 8, pos)
    IN  IF x = <<>> THEN NaNSample ELSE FloatSample(x)

\* lookup$1(bitDepth, floatingPoint): whether data_decoders has the name.
lookup(bitDepth, floatingPoint) ==
    \/ ~floatingPoint /\ bitDepth \in {8, 16, 24, 32}
    \/ floatingPoint /\ bitDepth \in {32, 64}

\* The width of an element of the decoder's input array.
decoderWidth(bitDepth) == IF bitDepth = 24 THEN 1 ELSE bitDepth \div 8

\* The decoder of the name applied to the interleaved sample number n.
decodeSample(buffer, offset, bitDepth, floatingPoint, n) ==
    IF floatingPoint
    THEN IF bitDepth = 32 THEN pcm32f(buffer, offset, n)
         ELSE pcm64f(buffer, offset, n)
    ELSE IF bitDepth = 8 THEN pcm8(buffer, offset, n)
    ELSE IF bitDepth = 16 THEN pcm16(buffer, offset, n)
    ELSE IF bitDepth = 24 THEN pcm24(buffer, offset, 3 * n)
    ELSE pcm32(buffer, offset, n)

\* decode's results: a DecodeResult, a throw, or a loop that never ends.
DecodeResult(sampleRate, channelData) ==
    [threw |-> FALSE, hung |-> FALSE, sampleRate |-> sampleRate,
     channelData |-> channelData]
DecodeThrew ==
    [threw |-> TRUE, hung |-> FALSE, sampleRate |-> 0, channelData |-> <<>>]
DecodeHung ==
    [threw |-> FALSE, hung |-> TRUE, sampleRate |-> 0, channelData |-> <<>>]

NoFmt == [present |-> FALSE, floatingPoint |-> FALSE, channels |-> 0,
          sampleRate |-> 0, blockSize |-> 0, bitDepth |-> 0]

\* decode, case "data": pos is the offset of the chunk's payload.
\* size / 0 is Infinity (NaN for 0 / 0): new Float32Array(Infinity) throws,
\* and without channels the loop over the samples never ends.
decodeData(bytes, pos, size, fmt) ==
    IF ~fmt.present THEN DecodeThrew
    ELSE IF fmt.blockSize = 0 /\ size > 0 /\ fmt.channels > 0 THEN DecodeThrew
    ELSE IF ~lookup(fmt.bitDepth, fmt.floatingPoint) THEN DecodeThrew
    ELSE IF TypedArrayThrows(bytes, pos, decoderWidth(fmt.bitDepth))
         THEN DecodeThrew
    ELSE IF fmt.blockSize = 0 /\ size > 0 THEN DecodeHung
    ELSE LET samples == IF fmt.blockSize = 0 THEN 0
                        ELSE size \div fmt.blockSize
         IN  DecodeResult(fmt.sampleRate,
                 [ch \in 1..fmt.channels |->
                     [i \in 1..samples |->
                         decodeSample(bytes, pos, fmt.bitDepth,
                                      fmt.floatingPoint,
                                      (i - 1) * fmt.channels + (ch - 1))]])

\* decode, the loop over the chunks from pos on.
RECURSIVE decodeChunks(_, _, _)
decodeChunks(bytes, pos, fmt) ==
    IF pos >= Len(bytes) THEN DecodeResult(44100, <<>>)
    ELSE IF ~CanRead(bytes, pos, 8) THEN DecodeThrew
    ELSE LET type == SubSeq(bytes, pos + 1, pos + 4)
             size == GetUint32LE(bytes, pos + 4)
             body == pos + 8
             next == body + size
         IN  IF type = <<102, 109, 116, 32>>
             THEN IF ~CanRead(bytes, body, 2) THEN DecodeThrew
                  ELSE IF GetUint16LE(bytes, body) \notin {1, 3} THEN DecodeThrew
                  ELSE IF ~CanRead(bytes, body, 16) THEN DecodeThrew
                  ELSE decodeChunks(bytes, next,
                           [present |-> TRUE,
                            floatingPoint |-> GetUint16LE(bytes, body) = 3,
                            channels |-> GetUint16LE(bytes, body + 2),
                            sampleRate |-> GetUint32LE(bytes, body + 4),
                            blockSize |-> GetUint16LE(bytes, body + 12),
                            bitDepth |-> GetUint16LE(bytes, body + 14)])
             ELSE IF type = <<100, 97, 116, 97>>
             THEN decodeData(bytes, body, size, fmt)
             ELSE decodeChunks(bytes, next, fmt)

\* decode without the check of the form type at bytes 8-11.
decodeSkipsForm(bytes) ==
    IF ~CanRead(bytes, 0, 4) THEN DecodeThrew
    ELSE IF SubSeq(bytes, 1, 4) # <<82, 73, 70, 70>> THEN DecodeThrew
    ELSE IF ~CanRead(bytes, 4, 8) THEN DecodeThrew
    ELSE decodeChunks(bytes, 12, NoFmt)

\* decode(bytes) for a Uint8Array over its whole buffer.
decode(bytes) ==
    IF ~CanRead(bytes, 0, 4) THEN DecodeThrew
    ELSE IF SubSeq(bytes, 1, 4) # <<82, 73, 70, 70>> THEN DecodeThrew
    ELSE IF ~CanRead(bytes, 4, 8) THEN DecodeThrew
    ELSE IF SubSeq(bytes, 9, 12) # <<87, 65, 86, 69>> THEN DecodeThrew
    ELSE decodeChunks(bytes, 12, NoFmt)

\* ------------------------------------------- WAV decode, binary/decode.ts
\* A value the getters of binary/decode.ts return and decode stores into
\* the output Float32Array: the integer as read, not scaled.
RawSample(data, bits) ==
    [kind |-> "raw", data |-> data, bits |-> bits, bytes |-> <<>>]

\* decoders.i8 ... decoders.f32 at byte offset pos of the view.
decoders_i8(view, pos) == RawSample(GetUint8(view, pos), 8)

decoders_i16(view, pos) == RawSample(Int16Of(SubSeq(view, pos + 1, pos + 2)), 16)

decoders_i24(view, pos) ==
    LET val == view[pos + 1] + view[pos + 2] * 256 + view[pos + 3] * 65536
    IN  RawSample(IF (val \div 8388608) % 2 = 1 THEN val - 16777216 ELSE val, 24)

decoders_i32(view, pos) == RawSample(Int32Of(SubSeq(view, pos + 1, pos + 4)), 32)

decoders_f32(view, pos) == FloatSample(SubSeq(view, pos + 1, pos + 4))

\* getDecoder(float, bits): the key of the getter, "i8" when decoders has
\* no getter for the key.
getDecoder(float, bits) ==
    IF float THEN (IF bits = 32 THEN "f32" ELSE "i8")
    ELSE IF bits = 16 THEN "i16"
    ELSE IF bits = 24 THEN "i24"
    ELSE IF bits = 32 THEN "i32"
    ELSE "i8"

\* The bytes the getter of that key reads.
getterWidth(key) ==
    IF key = "i8" THEN 1 ELSE IF key = "i16" THEN 2 ELSE IF key = "i24" THEN 3
    ELSE 4

\* The getter of that key applied at pos.
getterAt(key, view, pos) ==
    IF key = "i8" THEN decoders_i8(view, pos)
    ELSE IF key = "i16" THEN decoders_i16(view, pos)
    ELSE IF key = "i24" THEN decoders_i24(view, pos)
    ELSE IF key = "i32" THEN decoders_i32(view, pos)
    ELSE decoders_f32(view, pos)

\* bitsPerSample = [8, 16, 24, 32].includes(bitsPerSample) ? bitsPerSample : 16
coerceBits(bitsPerSample) ==
    IF bitsPerSample \in {8, 16, 24, 32} THEN bitsPerSample ELSE 16

\* decode(bytes) of binary/decode.ts.  The header fields are read at fixed
\* offsets (a read past the end throws a RangeError); sampleLength is
\* truncated by new Float32Array, which throws for a length of -1 or less;
\* the loop reads a sample for every channel of every block it starts, and
\* without channels its cursor never moves.
binary_decode(bytes) ==
    IF ~CanRead(bytes, 34, 2) THEN DecodeThrew
    ELSE
    LET float == GetUint16LE(bytes, 20) = 3
        channelCount == GetUint16LE(bytes, 22)
        sampleRate == GetUint32LE(bytes, 24)
        bitsPerSample == coerceBits(GetUint16LE(bytes, 34))
        width == bitsPerSample \div 8
        frame == channelCount * width
        span == Len(bytes) - 44
        key == getDecoder(float, bitsPerSample)
    IN  IF channelCount = 0
        THEN IF span > 0 THEN DecodeHung ELSE DecodeResult(sampleRate, <<>>)
        ELSE IF 0 - span >= frame THEN DecodeThrew
        ELSE LET sampleLength == IF span < 0 THEN 0 ELSE span \div frame
                 blocks == IF span <= 0 THEN 0
                           ELSE (span + frame - 1) \div frame
             IN  IF \E k \in 0..(blocks * channelCount - 1) :
                        ~CanRead(bytes, 44 + k * width, getterWidth(key))
                 THEN DecodeThrew
                 ELSE DecodeResult(sampleRate,
                          [ch \in 1..channelCount |->
                              [b \in 1..sampleLength |->
                                  getterAt(key, bytes,
                                      44 + ((b - 1) * channelCount + (ch - 1))
                                           * width)]])

\* ------------------------------------------------------------------ state
VARIABLES
    dictLength,   \* TAC.dictLength
    dict,         \* TAC.dict
    dataChunk,    \* TAC.dataChunk
    written,      \* history: name -> the audio of the last accepted
                  \* writeEntry and the arena length it was appended at
    encoded,      \* the result of tac.encode() on the container as it is
    loaded,       \* the result of TAC.from on encoded, or on a cut of it
    wavIn,        \* the arguments of encode: channelData, sampleRate, format
    wavEnc,       \* the result of encode on wavIn
    wavDec,       \* the result of decode on the bytes of wavEnc or of riff
    riff,         \* a RIFF file handed to decode, as its parts
    sampleCheck,  \* the value of hasValidSampleCount on new WAV(wavIn...)
    cache,        \* the WAVCache object: whether this.tac is set (the
                  \* container is then dictLength, dict, dataChunk), what
                  \* its last call answered, whether a call has thrown
    disk          \* the cache file: whether it exists, and its bytes

vars == <<dictLength, dict, dataChunk, written, encoded, loaded,
          wavIn, wavEnc, wavDec, riff, sampleCheck, cache, disk>>

tacVars == <<dictLength, dict, dataChunk, written, encoded, loaded>>
wavVars == <<wavIn, wavEnc, wavDec, riff, sampleCheck>>
cacheVars == <<cache, disk>>

\* The container as one value.
Tac == [dictLength |-> dictLength, dict |-> dict, dataChunk |-> dataChunk]

\* Entry names: "a", "b" and "éc" (1, 1 and 3 bytes in UTF-8).
Names == {<<97>>, <<98>>, <<233, 99>>}

SampleRates == {44100, 8000}

SampleValues == {F32One, F32Half}

Channels == UNION {[1..n -> SampleValues] : n \in 0..MaxSamples}

\* The audio handed to writeEntry: new WAV(raw, sampleRate); mono audio at
\* 44100 Hz, everything else at 8000 Hz.
Wavs == {[raw |-> r, sampleRate |-> IF Len(r) = 1 THEN 44100 ELSE 8000] :
            r \in UNION {[1..c -> Channels] : c \in 0..MaxChannels}}

\* A cache file in the documented layout: entries "a" (1 channel of 1
\* sample at offset 0, 44100 Hz) and "b" (1 channel of 1 sample at offset 1,
\* 8000 Hz), then the arena 0.5, -1.0.
CacheFile ==
    <<0, 0, 0, 32>>
    \o <<0, 0, 0, 0,  0, 0, 172, 68,  0, 0, 0, 1,  0, 1,  1, 97>>
    \o <<0, 0, 0, 1,  0, 0, 31, 64,   0, 0, 0, 1,  0, 1,  1, 98>>
    \o F32Half \o F32MinusOne

\* No encode() since the container last changed; no TAC.from since.
NotEncoded == [done |-> FALSE, threw |-> FALSE, bytes |-> <<>>]
NotLoaded == [done |-> FALSE, cut |-> 0, tac |-> NewTAC, threw |-> FALSE]

\* No call of encode or decode yet.
NoWavIn == [channelData |-> <<>>, sampleRate |-> 44100, format |-> Fmt16Int]
NoWavEnc == [done |-> FALSE, threw |-> FALSE, bytes |-> <<>>]
NoWavDec == [done |-> FALSE, threw |-> FALSE, hung |-> FALSE,
             sampleRate |-> 0, channelData |-> <<>>]

\* No WAVCache constructed; no cache file.
NoAnswer == [op |-> "none", name |-> <<>>, sampleRate |-> 0,
             channelData |-> <<>>, keys |-> <<>>]
NoUnsynced == [some |-> FALSE, name |-> <<>>, raw |-> <<>>, sampleRate |-> 0]
NoCache == [constructed |-> FALSE, tacDefined |-> FALSE, threw |-> FALSE,
            ops |-> 0, answer |-> NoAnswer, unsynced |-> NoUnsynced]
NoFile == [exists |-> FALSE, bytes |-> <<>>]

\* hasValidSampleCount not read yet.
NoSampleCheck == [done |-> FALSE, value |-> FALSE]

\* No file handed to decode.
NoRiff == [magic |-> <<>>, form |-> <<>>, pre |-> <<>>, fmtAt |-> "none",
           code |-> 1, channels |-> 1, bits |-> 8, data |-> <<>>,
           post |-> <<>>]

\* new TAC()
Init ==
    /\ dictLength = NewTAC.dictLength
    /\ dict = NewTAC.dict
    /\ dataChunk = NewTAC.dataChunk
    /\ written = <<>>
    /\ encoded = NotEncoded
    /\ loaded = NotLoaded
    /\ wavIn = NoWavIn
    /\ wavEnc = NoWavEnc
    /\ wavDec = NoWavDec
    /\ riff = NoRiff
    /\ sampleCheck = NoSampleCheck
    /\ cache = NoCache
    /\ disk = NoFile

\* The container read from CacheFile (WAVCache's constructor, readFile).
InitLoaded ==
    /\ dictLength = from(CacheFile).dictLength
    /\ dict = from(CacheFile).dict
    /\ dataChunk = from(CacheFile).dataChunk
    /\ written = <<>>
    /\ encoded = NotEncoded
    /\ loaded = NotLoaded
    /\ wavIn = NoWavIn
    /\ wavEnc = NoWavEnc
    /\ wavDec = NoWavDec
    /\ riff = NoRiff
    /\ sampleCheck = NoSampleCheck
    /\ cache = NoCache
    /\ disk = NoFile

\* tac.writeEntry(n, wav)
WriteEntry(n, wav) ==
    LET t == writeEntry(Tac, n, wav) IN
    /\ Len(dataChunk) + Len(Flatten(wav.raw)) <= MaxArena
    /\ t.dictLength <= MaxDictLength
    /\ dictLength' = t.dictLength
    /\ dict' = t.dict
    /\ dataChunk' = t.dataChunk
    /\ written' = IF hasValidSampleCount(wav)
                  THEN [k \in DOMAIN written \cup {n} |->
                           IF k = n THEN [wav |-> wav, at |-> Len(dataChunk)]
                           ELSE written[k]]
                  ELSE written
    /\ encoded' = NotEncoded
    /\ loaded' = NotLoaded
    /\ UNCHANGED wavVars
    /\ UNCHANGED cacheVars

\* tac.removeEntry(n)
RemoveEntry(n) ==
    LET t == removeEntry(Tac, n) IN
    /\ dictLength' = t.dictLength
    /\ dict' = t.dict
    /\ dataChunk' = t.dataChunk
    /\ written' = [k \in DOMAIN written \ {n} |-> written[k]]
    /\ encoded' = NotEncoded
    /\ loaded' = NotLoaded
    /\ UNCHANGED wavVars
    /\ UNCHANGED cacheVars

Next ==
    \/ \E n \in Names, wav \in Wavs : WriteEntry(n, wav)
    \/ \E n \in Names : RemoveEntry(n)

\* The container from new TAC() under writeEntry and removeEntry.
Spec == Init /\ [][Next]_vars

\* The container read from a cache file under writeEntry and removeEntry.
SpecLoaded == InitLoaded /\ [][Next]_vars

\* tac.encode(): validate changes the container, the bytes are kept.
Encode ==
    LET r == TAC_encode(Tac) IN
    /\ ~encoded.done
    /\ dictLength' = r.tac.dictLength
    /\ dict' = r.tac.dict
    /\ dataChunk' = r.tac.dataChunk
    /\ written' = [k \in DOMAIN written \cap MapKeys(r.tac.dict) |-> written[k]]
    /\ encoded' = [done |-> TRUE, threw |-> r.out.threw, bytes |-> r.out.bytes]
    /\ loaded' = NotLoaded
    /\ UNCHANGED wavVars
    /\ UNCHANGED cacheVars

\* TAC.from(raw), where raw is the encoded buffer without its last cut
\* bytes (cut = 0: the whole buffer).
From(cut) ==
    LET raw == SubSeq(encoded.bytes, 1, Len(encoded.bytes) - cut)
        r == from(raw)
    IN  /\ encoded.done
        /\ ~encoded.threw
        /\ cut <= Len(encoded.bytes)
        /\ loaded' = [done |-> TRUE, cut |-> cut, threw |-> r.threw,
                      tac |-> [dictLength |-> r.dictLength, dict |-> r.dict,
                               dataChunk |-> r.dataChunk]]
        /\ UNCHANGED <<dictLength, dict, dataChunk, written, encoded>>
        /\ UNCHANGED wavVars
        /\ UNCHANGED cacheVars

\* A container with at most MaxCodecEntries entries.
WriteEntryFew(n, wav) ==
    /\ WriteEntry(n, wav)
    /\ Len(dict') <= MaxCodecEntries

\* TAC.from leaves the container as it is: the calls on the container are
\* taken from the states without a decoding.
NextCodec ==
    \/ ~loaded.done /\ \E n \in Names, wav \in Wavs : WriteEntryFew(n, wav)
    \/ ~loaded.done /\ \E n \in Names : RemoveEntry(n)
    \/ ~loaded.done /\ Encode
    \/ ~loaded.done /\ \E cut \in 0..MaxCut : From(cut)

\* The container from new TAC() under writeEntry, removeEntry and encode,
\* and the decoding of the encoded bytes.
SpecCodec == Init /\ [][NextCodec]_vars

\* ------------------------------------------------ containers, long names
\* The name of n letters "a".
NameOf(n) == [i \in 1..n |-> 97]

\* Entry names around DICT_NAME_MAX_LENGTH bytes: the names of
\* DICT_NAME_MAX_LENGTH - 1 to MaxNameLength letters.
LongNames ==
    {NameOf(n) : n \in (DICT_NAME_MAX_LENGTH - 1)..MaxNameLength}

\* The audio written under those names: no channel, or one sample 1.0.
LongNameWavs ==
    {[raw |-> <<>>, sampleRate |-> 8000],
     [raw |-> <<<<F32One>>>>, sampleRate |-> 44100]}

\* tac.writeEntry(n, wav) on a container of at most MaxCodecEntries
\* entries.
WriteLongEntry(n, wav) ==
    LET t == writeEntry(Tac, n, wav) IN
    /\ Len(dataChunk) + Len(Flatten(wav.raw)) <= MaxArena
    /\ t.dictLength <= MaxLongDictLength
    /\ Len(t.dict) <= MaxCodecEntries
    /\ dictLength' = t.dictLength
    /\ dict' = t.dict
    /\ dataChunk' = t.dataChunk
    /\ written' = IF hasValidSampleCount(wav)
                  THEN [k \in DOMAIN written \cup {n} |->
                           IF k = n THEN [wav |-> wav, at |-> Len(dataChunk)]
                           ELSE written[k]]
                  ELSE written
    /\ encoded' = NotEncoded
    /\ loaded' = NotLoaded
    /\ UNCHANGED wavVars
    /\ UNCHANGED cacheVars

NextLongNames ==
    \/ ~loaded.done /\ \E n \in LongNames, wav \in LongNameWavs : WriteLongEntry(n, wav)
    \/ ~loaded.done /\ \E n \in LongNames : RemoveEntry(n)
    \/ ~loaded.done /\ Encode
    \/ ~loaded.done /\ From(0)

\* The container from new TAC() under writeEntry and removeEntry with
\* names of up to MaxNameLength bytes, encode (which validates), and the
\* decoding of the encoded bytes.
SpecLongNames == Init /\ [][NextLongNames]_vars

\* --------------------------------------------------- WAV encode / decode
WavSampleRates == {44100, 8000}

\* 1.0, -1.0 and 0.25
WavSampleValues == {F32One, F32MinusOne, <<0, 0, 128, 62>>}

WAVFormats == {Fmt8Int, Fmt16Int, Fmt24Int, Fmt32Int, Fmt32Float}

\* channelData: 1 to MaxWavChannels channels of the same length.
WavChannelData ==
    UNION {[1..c -> [1..f -> WavSampleValues]] :
              c \in 1..MaxWavChannels, f \in 0..MaxFrames}

\* The arguments of one call of encode.
InitWav ==
    /\ dictLength = NewTAC.dictLength
    /\ dict = NewTAC.dict
    /\ dataChunk = NewTAC.dataChunk
    /\ written = <<>>
    /\ encoded = NotEncoded
    /\ loaded = NotLoaded
    /\ wavIn \in [channelData : WavChannelData, sampleRate : WavSampleRates,
                  format : WAVFormats]
    /\ wavEnc = NoWavEnc
    /\ wavDec = NoWavDec
    /\ riff = NoRiff
    /\ sampleCheck = NoSampleCheck
    /\ cache = NoCache
    /\ disk = NoFile

\* encode(channelData, sampleRate, format)
EncodeWav ==
    LET r == encode(wavIn.channelData, wavIn.sampleRate, wavIn.format) IN
    /\ ~wavEnc.done
    /\ wavEnc' = [done |-> TRUE, threw |-> r.threw, bytes |-> r.bytes]
    /\ UNCHANGED <<wavIn, wavDec, riff, sampleCheck>>
    /\ UNCHANGED tacVars
    /\ UNCHANGED cacheVars

\* decode(bytes) on the bytes encode returned
DecodeWav ==
    LET r == decode(wavEnc.bytes) IN
    /\ wavEnc.done
    /\ ~wavEnc.threw
    /\ ~wavDec.done
    /\ wavDec' = [done |-> TRUE, threw |-> r.threw, hung |-> r.hung,
                  sampleRate |-> r.sampleRate, channelData |-> r.channelData]
    /\ UNCHANGED <<wavIn, wavEnc, riff, sampleCheck>>
    /\ UNCHANGED tacVars
    /\ UNCHANGED cacheVars

NextWav ==
    \/ EncodeWav
    \/ DecodeWav

\* encode on every input of the model, and decode on what it returns.
SpecWav == InitWav /\ [][NextWav]_vars

\* ------------------------------------------------------ decode of a file
\* "RIFF", "WAVE", "fmt ", "data" and "LIST" as bytes.
TagRIFF == <<82, 73, 70, 70>>
TagWAVE == <<87, 65, 86, 69>>
TagFmt == <<102, 109, 116, 32>>
TagData == <<100, 97, 116, 97>>
TagLIST == <<76, 73, 83, 84>>

\* A chunk as decode walks it: tag, little-endian size, payload.
Chunk(tag, body) == tag \o Uint32LE(Len(body)) \o body

\* The 16 bytes decode reads from a "fmt " chunk.
FmtBody(code, channels, sampleRate, bits) ==
    Uint16LE(code) \o Uint16LE(channels) \o Uint32LE(sampleRate)
    \o Uint32LE((sampleRate * channels * bits) \div 8)
    \o Uint16LE((channels * bits) \div 8) \o Uint16LE(bits)

\* The sample rate of the files of the model: 44100 Hz mono, 8000 Hz else.
RiffSampleRate(f) == IF f.channels = 1 THEN 44100 ELSE 8000

RiffFmtChunk(f) ==
    Chunk(TagFmt, FmtBody(f.code, f.channels, RiffSampleRate(f), f.bits))

\* The unknown chunks of the given payload sizes.
RECURSIVE UnknownChunks(_)
UnknownChunks(sizes) ==
    IF sizes = <<>> THEN <<>>
    ELSE Chunk(TagLIST, ArrayBuffer(Head(sizes))) \o UnknownChunks(Tail(sizes))

\* The bytes of the file f: the header, the unknown chunks f.pre, the fmt
\* chunk (before or after the data chunk, or none), the data chunk of the
\* raw interleaved samples f.data, the unknown chunks f.post.
RiffBytes(f) ==
    LET chunks ==
            UnknownChunks(f.pre)
            \o (IF f.fmtAt = "before" THEN RiffFmtChunk(f) ELSE <<>>)
            \o Chunk(TagData, Flatten(f.data))
            \o (IF f.fmtAt = "after" THEN RiffFmtChunk(f) ELSE <<>>)
            \o UnknownChunks(f.post)
    IN  f.magic \o Uint32LE(4 + Len(chunks)) \o f.form \o chunks

\* Raw samples of a width in bytes: 0, the largest and the smallest
\* two's-complement value (for one byte: 0, 127 and 128).
RawSamples(width) ==
    {[i \in 1..width |-> 0],
     [i \in 1..width |-> IF i = width THEN 127 ELSE 255],
     [i \in 1..width |-> IF i = width THEN 128 ELSE 0]}

UnknownSizes == {2, 4}

\* The files of the model.
RiffFiles ==
    UNION {
      [magic : {m}, form : {w},
       pre : UNION {[1..n -> UnknownSizes] : n \in 0..MaxUnknownChunks},
       fmtAt : {"before", "after", "none"},
       code : {1, 3, 2},
       channels : {c},
       bits : {b},
       data : UNION {[1..(c * n) -> RawSamples(b \div 8)] : n \in 0..MaxDataFrames},
       post : UNION {[1..n -> UnknownSizes] : n \in 0..MaxUnknownChunks}] :
      m \in {TagRIFF}, w \in {TagWAVE}, c \in 1..2, b \in {8, 16, 24, 32}}
    \cup
    UNION {
      [magic : {mw[1]}, form : {mw[2]}, pre : {<<>>}, fmtAt : {"before"},
       code : {1}, channels : {c}, bits : {b},
       data : {[i \in 1..c |-> [j \in 1..(b \div 8) |-> 0]]},
       post : {<<>>}] :
      mw \in {<<TagLIST, TagWAVE>>, <<TagRIFF, TagLIST>>},
      c \in 1..2, b \in {8, 16, 24, 32}}

\* One file handed to decode.
InitDecode ==
    /\ dictLength = NewTAC.dictLength
    /\ dict = NewTAC.dict
    /\ dataChunk = NewTAC.dataChunk
    /\ written = <<>>
    /\ encoded = NotEncoded
    /\ loaded = NotLoaded
    /\ wavIn = NoWavIn
    /\ wavEnc = NoWavEnc
    /\ wavDec = NoWavDec
    /\ riff \in RiffFiles
    /\ sampleCheck = NoSampleCheck
    /\ cache = NoCache
    /\ disk = NoFile

\* decode(bytes) on the bytes of the file
DecodeFile ==
    LET r == decode(RiffBytes(riff)) IN
    /\ ~wavDec.done
    /\ wavDec' = [done |-> TRUE, threw |-> r.threw, hung |-> r.hung,
                  sampleRate |-> r.sampleRate, channelData |-> r.channelData]
    /\ UNCHANGED <<wavIn, wavEnc, riff, sampleCheck>>
    /\ UNCHANGED tacVars
    /\ UNCHANGED cacheVars

NextDecode == DecodeFile

\* decode on every file of the model.
SpecDecode == InitDecode /\ [][NextDecode]_vars

\* ------------------------------------------------ decode of any header
\* The bytes of a file in the layout encode writes, with the fields of f
\* in its header: RIFF, size, WAVE, the fmt chunk and its declared size,
\* the data chunk and its declared size, the payload.
HeaderBytes(f) ==
    TagRIFF \o Uint32LE(36 + Len(f.payload)) \o TagWAVE
    \o TagFmt \o Uint32LE(f.fmtSize)
    \o Uint16LE(f.code) \o Uint16LE(f.channels) \o Uint32LE(8000)
    \o Uint32LE(8000 * f.blockAlign) \o Uint16LE(f.blockAlign)
    \o Uint16LE(f.bits)
    \o TagData \o Uint32LE(f.dataSize) \o f.payload

\* The headers of the model: PCM or float, 0 to 2 channels, a bit depth in
\* or outside {8, 16, 24, 32}, the block align of the format or 0, the
\* chunk sizes as they are or 0, a payload of at most MaxPayload bytes; and
\* the decode the caller imports (vendor/node-wav-decode.ts or
\* binary/decode.ts).
HeaderPayloads == UNION {[1..n -> {0, 128}] : n \in 0..MaxPayload}

HeaderFiles ==
    UNION {
      [decoder : {"vendor", "binary"}, code : {1, 3}, channels : {c},
       bits : {b}, blockAlign : {0, (c * b) \div 8}, fmtSize : {0, 16},
       dataSize : {0, Len(p)}, payload : {p}] :
      c \in 0..2, b \in {8, 12, 16, 24, 32}, p \in HeaderPayloads}

\* One file handed to one of the two decode functions.
InitHeader ==
    /\ dictLength = NewTAC.dictLength
    /\ dict = NewTAC.dict
    /\ dataChunk = NewTAC.dataChunk
    /\ written = <<>>
    /\ encoded = NotEncoded
    /\ loaded = NotLoaded
    /\ wavIn = NoWavIn
    /\ wavEnc = NoWavEnc
    /\ wavDec = NoWavDec
    /\ riff \in HeaderFiles
    /\ sampleCheck = NoSampleCheck
    /\ cache = NoCache
    /\ disk = NoFile

\* decode(bytes) of vendor/node-wav-decode.ts on the file
DecodeVendor ==
    LET r == decode(HeaderBytes(riff)) IN
    /\ riff.decoder = "vendor"
    /\ ~wavDec.done
    /\ wavDec' = [done |-> TRUE, threw |-> r.threw, hung |-> r.hung,
                  sampleRate |-> r.sampleRate, channelData |-> r.channelData]
    /\ UNCHANGED <<wavIn, wavEnc, riff, sampleCheck>>
    /\ UNCHANGED tacVars
    /\ UNCHANGED cacheVars

\* decode(bytes) of binary/decode.ts on the file
DecodeBinary ==
    LET r == binary_decode(HeaderBytes(riff)) IN
    /\ riff.decoder = "binary"
    /\ ~wavDec.done
    /\ wavDec' = [done |-> TRUE, threw |-> r.threw, hung |-> r.hung,
                  sampleRate |-> r.sampleRate, channelData |-> r.channelData]
    /\ UNCHANGED <<wavIn, wavEnc, riff, sampleCheck>>
    /\ UNCHANGED tacVars
    /\ UNCHANGED cacheVars

NextHeader ==
    \/ DecodeVendor
    \/ DecodeBinary

\* Either decode on every header of the model.
SpecHeader == InitHeader /\ [][NextHeader]_vars

\* ------------------------------------------------- validate of a cache file
\* Names of the entries of a cache file: "a", "b", "c".
FileNames == {<<97>>, <<98>>, <<99>>}

\* A dictionary entry in the layout TAC.from reads: offset, sampleRate,
\* sampleCount (uint32), channelCount (uint16), nameLength (uint8), name.
FileEntryBytes(e) ==
    Uint32BE(e.indexOffset) \o Uint32BE(e.sampleRate) \o Uint32BE(e.sampleCount)
    \o Uint16BE(e.channelCount) \o <<Len(TextEncode(e.name))>>
    \o TextEncode(e.name)

\* A cache file in that layout: dictLength, the entries, the arena.
TacFileBytes(entries, arena) ==
    LET d == Flatten([i \in DOMAIN entries |-> FileEntryBytes(entries[i])])
    IN  Uint32BE(Len(d)) \o d \o Flatten(arena)

\* The arena of n samples 0.5, -1.0, 1.0, 0.5, ...
ArenaOf(n) == [i \in 1..n |-> <<F32Half, F32MinusOne, F32One>>[((i - 1) % 3) + 1]]

\* The entries a cache file may declare: any offset up to one past the
\* arena of the largest file.
FileEntries ==
    [name : FileNames, indexOffset : 0..(MaxFileArena + 1), sampleRate : {44100},
     sampleCount : 0..MaxFileSamples, channelCount : 1..MaxChannels]

\* Dictionaries of distinct names, at most MaxFileEntries entries.
FileDicts ==
    {d \in UNION {[1..n -> FileEntries] : n \in 0..MaxFileEntries} :
        \A i, j \in DOMAIN d : i # j => d[i].name # d[j].name}

\* The containers TAC.from returns for those files.
FileTacs ==
    {t \in {from(TacFileBytes(d, ArenaOf(n))) : d \in FileDicts, n \in 0..MaxFileArena} :
        ~t.threw}

\* The container TAC.from has read from a cache file.
InitValidate ==
    /\ \E t \in FileTacs :
         /\ dictLength = t.dictLength
         /\ dict = t.dict
         /\ dataChunk = t.dataChunk
         /\ loaded = [done |-> TRUE, cut |-> 0, threw |-> FALSE,
                      tac |-> [dictLength |-> t.dictLength, dict |-> t.dict,
                               dataChunk |-> t.dataChunk]]
    /\ written = <<>>
    /\ encoded = NotEncoded
    /\ wavIn = NoWavIn
    /\ wavEnc = NoWavEnc
    /\ wavDec = NoWavDec
    /\ riff = NoRiff
    /\ sampleCheck = NoSampleCheck
    /\ cache = NoCache
    /\ disk = NoFile

\* tac.validate()
Validate ==
    LET t == validate(Tac, FALSE) IN
    /\ dictLength' = t.dictLength
    /\ dict' = t.dict
    /\ dataChunk' = t.dataChunk
    /\ UNCHANGED <<written, encoded, loaded>>
    /\ UNCHANGED wavVars
    /\ UNCHANGED cacheVars

NextValidate == Validate

\* validate on every container read from a cache file of the model.
SpecValidate == InitValidate /\ [][NextValidate]_vars

\* ---------------------------------------------------------------- WAVCache
\* pathCanBeAccessed(fileName) of @aurellis/helpers: the file exists.
pathCanBeAccessed(d) == d.exists

\* WAVCache.readFile: this.tac after the call.  readOk is whether
\* Deno.readFileSync returns the bytes; when it throws, or TAC.from throws,
\* this.tac is left as it was.
readFile(c, tac, d, readOk) ==
    IF pathCanBeAccessed(d) /\ readOk /\ ~from(d.bytes).threw
    THEN [tacDefined |-> TRUE,
          tac |-> [dictLength |-> from(d.bytes).dictLength,
                   dict |-> from(d.bytes).dict,
                   dataChunk |-> from(d.bytes).dataChunk]]
    ELSE [tacDefined |-> c.tacDefined, tac |-> tac]

\* The names and the audio the calls of the model use: "a" and "b"; one
\* sample 1.0 in one channel at 44100 Hz, in two channels at 8000 Hz, and
\* one sample 0.5 in one channel.
CacheNames == {<<97>>, <<98>>}
CacheWavs ==
    {[raw |-> <<<<F32One>>>>, sampleRate |-> 44100],
     [raw |-> <<<<F32One>>, <<F32One>>>>, sampleRate |-> 8000],
     [raw |-> <<<<F32Half>>>>, sampleRate |-> 44100]}

\* The cache files found at construction: none, an empty file, a file
\* with an empty dictionary, CacheFile.
CacheDisks ==
    {NoFile, [exists |-> TRUE, bytes |-> <<>>],
     [exists |-> TRUE, bytes |-> <<0, 0, 0, 0>>],
     [exists |-> TRUE, bytes |-> CacheFile]}

\* Before new WAVCache(fileName).
InitCache ==
    /\ dictLength = NewTAC.dictLength
    /\ dict = NewTAC.dict
    /\ dataChunk = NewTAC.dataChunk
    /\ written = <<>>
    /\ encoded = NotEncoded
    /\ loaded = NotLoaded
    /\ wavIn = NoWavIn
    /\ wavEnc = NoWavEnc
    /\ wavDec = NoWavDec
    /\ riff = NoRiff
    /\ sampleCheck = NoSampleCheck
    /\ cache = NoCache
    /\ disk \in CacheDisks

\* The in-memory container becomes tac.
SetTac(tac) ==
    /\ dictLength' = tac.dictLength
    /\ dict' = tac.dict
    /\ dataChunk' = tac.dataChunk

\* A call on this.tac while this.tac is undefined: a TypeError.
CacheThrows ==
    /\ cache' = [cache EXCEPT !.threw = TRUE, !.ops = cache.ops + 1,
                              !.answer = NoAnswer]
    /\ UNCHANGED <<dictLength, dict, dataChunk, disk>>

\* A call may start: the object is constructed and no call has thrown.
CacheReady ==
    /\ cache.constructed
    /\ ~cache.threw
    /\ cache.ops < MaxCacheOps

\* new WAVCache(fileName)
CacheConstruct(readOk) ==
    LET r == readFile(cache, NewTAC, disk, readOk) IN
    /\ ~cache.constructed
    /\ cache' = [cache EXCEPT !.constructed = TRUE,
                   !.tacDefined = IF pathCanBeAccessed(disk) THEN r.tacDefined
                                  ELSE TRUE]
    /\ SetTac(IF pathCanBeAccessed(disk) THEN r.tac ELSE NewTAC)
    /\ UNCHANGED <<disk, written, encoded, loaded>>
    /\ UNCHANGED wavVars

\* cache.read(n)
CacheRead(n, readOk) ==
    LET r == readFile(cache, Tac, disk, readOk)
        dec == readEntry(r.tac, n)
    IN  /\ CacheReady
        /\ IF r.tacDefined
           THEN /\ SetTac(r.tac)
                /\ cache' = [cache EXCEPT !.tacDefined = TRUE,
                               !.ops = cache.ops + 1,
                               !.answer = [op |-> "read", name |-> n,
                                           sampleRate |-> dec.sampleRate,
                                           channelData |-> dec.channelData,
                                           keys |-> <<>>]]
                /\ UNCHANGED disk
           ELSE CacheThrows
        /\ UNCHANGED <<written, encoded, loaded>>
        /\ UNCHANGED wavVars

\* cache.entries
CacheEntries(readOk) ==
    LET r == readFile(cache, Tac, disk, readOk) IN
    /\ CacheReady
    /\ IF r.tacDefined
       THEN /\ SetTac(r.tac)
            /\ cache' = [cache EXCEPT !.tacDefined = TRUE,
                           !.ops = cache.ops + 1,
                           !.answer = [op |-> "entries", name |-> <<>>,
                                       sampleRate |-> 0, channelData |-> <<>>,
                                       keys |-> [i \in DOMAIN r.tac.dict |->
                                                    r.tac.dict[i].key]]]
            /\ UNCHANGED disk
       ELSE CacheThrows
    /\ UNCHANGED <<written, encoded, loaded>>
    /\ UNCHANGED wavVars

\* The end of cache.write: this.tac.encode(), which validates the
\* container, then Deno.writeFileSync, which writes the bytes when writeOk
\* and throws, inside try / catch, otherwise.
CacheWriteFile(tac, writeOk, unsynced) ==
    LET r == TAC_encode(tac) IN
    /\ SetTac(r.tac)
    /\ disk' = IF writeOk /\ ~r.out.threw
               THEN [exists |-> TRUE, bytes |-> r.out.bytes]
               ELSE disk
    /\ cache' = [cache EXCEPT !.ops = cache.ops + 1, !.answer = NoAnswer,
                   !.unsynced = IF writeOk /\ ~r.out.threw THEN NoUnsynced
                                ELSE unsynced]

\* cache.write(n, wav)
CacheWrite(n, wav, writeOk) ==
    /\ CacheReady
    /\ IF cache.tacDefined
       THEN CacheWriteFile(writeEntry(Tac, n, wav), writeOk,
                IF hasValidSampleCount(wav)
                THEN [some |-> TRUE, name |-> n, raw |-> wav.raw,
                      sampleRate |-> wav.sampleRate]
                ELSE NoUnsynced)
       ELSE CacheThrows
    /\ UNCHANGED <<written, encoded, loaded>>
    /\ UNCHANGED wavVars

\* cache.write(n): the entry is removed
CacheRemove(n, writeOk) ==
    /\ CacheReady
    /\ IF cache.tacDefined
       THEN CacheWriteFile(removeEntry(Tac, n), writeOk, NoUnsynced)
       ELSE CacheThrows
    /\ UNCHANGED <<written, encoded, loaded>>
    /\ UNCHANGED wavVars

\* cache.clear(): Deno.removeSync deletes the file when removeOk and
\* throws, inside try / catch, otherwise; finally the container is emptied.
CacheClear(removeOk) ==
    /\ CacheReady
    /\ IF cache.tacDefined
       THEN /\ SetTac(NewTAC)
            /\ disk' = IF removeOk /\ disk.exists THEN NoFile ELSE disk
            /\ cache' = [cache EXCEPT !.ops = cache.ops + 1,
                           !.answer = NoAnswer, !.unsynced = NoUnsynced]
       ELSE /\ cache' = [cache EXCEPT !.threw = TRUE, !.ops = cache.ops + 1,
                                      !.answer = NoAnswer]
            /\ disk' = IF removeOk /\ disk.exists THEN NoFile ELSE disk
            /\ UNCHANGED <<dictLength, dict, dataChunk>>
    /\ UNCHANGED <<written, encoded, loaded>>
    /\ UNCHANGED wavVars

NextCache ==
    \/ \E readOk \in BOOLEAN : CacheConstruct(readOk)
    \/ \E n \in CacheNames, readOk \in BOOLEAN : CacheRead(n, readOk)
    \/ \E readOk \in BOOLEAN : CacheEntries(readOk)
    \/ \E n \in CacheNames, wav \in CacheWavs, writeOk \in BOOLEAN :
           CacheWrite(n, wav, writeOk)
    \/ \E n \in CacheNames, writeOk \in BOOLEAN : CacheRemove(n, writeOk)
    \/ \E removeOk \in BOOLEAN : CacheClear(removeOk)

\* A WAVCache over a cache file whose reads, writes and deletes may fail.
SpecCache == InitCache /\ [][NextCache]_vars

\* ------------------------------------------------ WAV.hasValidSampleCount
\* 1.0, 0.5, -1.0 and 1.5
CheckSampleValues == {F32One, F32Half, F32MinusOne, <<0, 0, 192, 63>>}

\* raw of new WAV(raw, sampleRate): up to MaxWavChannels channels of up to
\* MaxFrames samples each, of any lengths.
CheckChannelData ==
    UNION {[1..c -> UNION {[1..f -> CheckSampleValues] : f \in 0..MaxFrames}] :
              c \in 0..MaxWavChannels}

\* new WAV(raw, sampleRate)
InitSampleCount ==
    /\ dictLength = NewTAC.dictLength
    /\ dict = NewTAC.dict
    /\ dataChunk = NewTAC.dataChunk
    /\ written = <<>>
    /\ encoded = NotEncoded
    /\ loaded = NotLoaded
    /\ wavIn \in [channelData : CheckChannelData, sampleRate : {44100},
                  format : {Fmt16Int}]
    /\ wavEnc = NoWavEnc
    /\ wavDec = NoWavDec
    /\ riff = NoRiff
    /\ sampleCheck = NoSampleCheck
    /\ cache = NoCache
    /\ disk = NoFile

\* wav.hasValidSampleCount
CheckSampleCount ==
    /\ ~sampleCheck.done
    /\ sampleCheck' =
           [done |-> TRUE,
            value |-> hasValidSampleCount([raw |-> wavIn.channelData,
                                           sampleRate |-> wavIn.sampleRate])]
    /\ UNCHANGED <<wavIn, wavEnc, wavDec, riff>>
    /\ UNCHANGED tacVars
    /\ UNCHANGED cacheVars

NextSampleCount == CheckSampleCount

\* hasValidSampleCount on every audio of the model.
SpecSampleCount == InitSampleCount /\ [][NextSampleCount]_vars

\* ------------------------------------------------------------- properties
\* The arena range of an entry, as a set of sample indices.
EntryIndices(e) == e.indexOffset .. (e.indexOffset + entryDataLength(e) - 1)

\* C1: from an empty container, after any writeEntry and removeEntry calls,
\* the sum over the entries of sampleCount * channelCount is the length of
\* the arena.
C1_EntriesFillArena ==
    SumSeq([i \in DOMAIN dict |-> entryDataLength(dict[i])]) = Len(dataChunk)

\* C2: from an empty container, after any writeEntry and removeEntry calls,
\* no two entries' ranges overlap and every range lies inside the arena.
C2_RangesDisjointInArena ==
    /\ \A i, j \in DOMAIN dict :
           i # j => EntryIndices(dict[i]) \cap EntryIndices(dict[j]) = {}
    /\ \A i \in DOMAIN dict :
           /\ 0 <= dict[i].indexOffset
           /\ dict[i].indexOffset + entryDataLength(dict[i]) <= Len(dataChunk)

\* Two entries with samples are stored, one of them moved down by a removal.
C2_Witness ==
    /\ \E i, j \in DOMAIN dict :
           /\ i # j
           /\ entryDataLength(dict[i]) > 0
           /\ entryDataLength(dict[j]) > 0
    /\ \E n \in DOMAIN written :
           MapHas(dict, n) /\ MapGet(dict, n).indexOffset < written[n].at

\* C3: from an empty container, after any writeEntry (overwrites included)
\* and removeEntry calls, dictLength is the sum over the entries of
\* 15 + the UTF-8 length of the name.
C3_DictLengthIsSum ==
    dictLength =
        SumSeq([i \in DOMAIN dict |->
                   DICT_ENTRY_BASE_LENGTH + Len(TextEncode(dict[i].name))])

\* C4: once writeEntry(n, buf) was accepted, readEntry(n) returns buf's
\* sample rate and buf's samples channel by channel, whatever was written
\* to or removed from the container under other names since.
C4_ReadReturnsWritten ==
    \A n \in DOMAIN written :
        readEntry(Tac, n) = [sampleRate |-> written[n].wav.sampleRate,
                             channelData |-> written[n].wav.raw]

\* An entry with samples in two channels was written and has since moved
\* down in the arena because an entry stored before it was removed.
C4_Witness ==
    \E n \in DOMAIN written :
        /\ Len(written[n].wav.raw) = 2
        /\ Len(written[n].wav.raw[1]) > 0
        /\ MapHas(dict, n)
        /\ MapGet(dict, n).indexOffset < written[n].at

\* What removeEntry(n) does to a container that holds n at offset o with
\* data length L.
C5_Post(n) ==
    LET entry == MapGet(dict, n)
        o == entry.indexOffset
        L == entry.sampleCount * entry.channelCount
    IN  /\ Len(dataChunk') = Len(dataChunk) - L
        /\ \A k \in 1..Len(dataChunk') :
               dataChunk'[k] = IF k <= o THEN dataChunk[k] ELSE dataChunk[k + L]
        /\ MapKeys(dict') = MapKeys(dict) \ {n}
        /\ \A k \in MapKeys(dict') :
               MapGet(dict', k) =
                   [MapGet(dict, k) EXCEPT !.indexOffset =
                       IF MapGet(dict, k).indexOffset > o
                       THEN MapGet(dict, k).indexOffset - L
                       ELSE MapGet(dict, k).indexOffset]

\* C5: removeEntry(n) of a present entry at offset o with L samples removes
\* the samples [o, o + L) from the arena, moves every other entry stored
\* after o down by L, leaves the other entries where they are and deletes
\* n alone.
C5_RemoveEntryEffect ==
    [][\A n \in Names : (MapHas(dict, n) /\ RemoveEntry(n)) => C5_Post(n)]_vars

\* The first entry of the cache file is still at offset 0 while an entry
\* written later has moved down: an entry between the two was removed.
C5_Witness ==
    /\ MapHas(dict, <<97>>)
    /\ MapGet(dict, <<97>>).indexOffset = 0
    /\ \E n \in DOMAIN written :
           /\ MapHas(dict, n)
           /\ entryDataLength(MapGet(dict, n)) > 0
           /\ MapGet(dict, n).indexOffset < written[n].at

\* The fields of the entries that a decoding has to give back.
EntryFacts(d) ==
    {[name |-> d[i].name, indexOffset |-> d[i].indexOffset,
      sampleRate |-> d[i].sampleRate, sampleCount |-> d[i].sampleCount,
      channelCount |-> d[i].channelCount] : i \in DOMAIN d}

\* The entries of d whose serialized form, 15 + nameLength bytes each from
\* byte 4 on, ends within the first len bytes.
RECURSIVE WholeEntries(_, _, _, _)
WholeEntries(d, i, cursor, len) ==
    IF i > Len(d) THEN <<>>
    ELSE LET next == cursor + DICT_ENTRY_BASE_LENGTH + Len(TextEncode(d[i].name))
         IN  IF next <= len
             THEN <<d[i]>> \o WholeEntries(d, i + 1, next, len)
             ELSE <<>>

\* C6: a TAC buffer cut inside its dictionary (shorter than the declared
\* dictLength + 4) is decoded by TAC.from without an exception into the
\* entries that lie whole before the cut.
C6_CutDictionaryDecodes ==
    (/\ loaded.done
     /\ Len(encoded.bytes) - loaded.cut < dictLength + 4
     /\ Len(encoded.bytes) - loaded.cut >= 4)
    => /\ ~loaded.threw
       /\ EntryFacts(loaded.tac.dict) =
              EntryFacts(WholeEntries(dict, 1, 4, Len(encoded.bytes) - loaded.cut))

\* C7: TAC.from(container.encode()) holds the entries of the container
\* (name, offset, sampleRate, sampleCount, channelCount) and an arena equal
\* to the container's, sample for sample.
C7_DecodeOfEncode ==
    (loaded.done /\ loaded.cut = 0)
    => /\ ~loaded.threw
       /\ EntryFacts(loaded.tac.dict) = EntryFacts(dict)
       /\ loaded.tac.dataChunk = dataChunk

\* The header fields of an encoded buffer, read back at BYTE_OFFSETS.
HeaderFields(bytes) ==
    [format |-> GetUint16LE(bytes, 20),
     channels |-> GetUint16LE(bytes, 22),
     sampleRate |-> GetUint32LE(bytes, 24),
     bytesPerSec |-> GetUint32LE(bytes, 28),
     bytesPerBlock |-> GetUint16LE(bytes, 32),
     bitsPerSample |-> GetUint16LE(bytes, 34),
     sampleLength |-> GetUint32LE(bytes, 40),
     fileSize |-> GetUint32LE(bytes, 4)]

\* The bit depth a WAVFormat names.
FormatBitDepth(format) ==
    CASE format = Fmt8Int -> 8
      [] format = Fmt16Int -> 16
      [] format = Fmt24Int -> 24
      [] format \in {Fmt32Int, Fmt32Float} -> 32

\* C8: encode with "8-bit Int" for 1 or 2 equal-length channels at rate R
\* returns a buffer whose header holds format code 1, channel count C,
\* sample rate R, block align C, bits per sample 8, and a size field at
\* offset 4 equal to the buffer length - 8.
C8_EightBitHeader ==
    (wavEnc.done /\ wavIn.format = Fmt8Int /\ Len(wavIn.channelData) \in {1, 2})
    => /\ ~wavEnc.threw
       /\ Len(wavEnc.bytes) >= 44
       /\ LET h == HeaderFields(wavEnc.bytes) IN
            /\ h.format = 1
            /\ h.channels = Len(wavIn.channelData)
            /\ h.sampleRate = wavIn.sampleRate
            /\ h.bytesPerBlock = Len(wavIn.channelData)
            /\ h.bitsPerSample = 8
            /\ h.fileSize = Len(wavEnc.bytes) - 8

\* C9: for 16-bit Int, 24-bit Int, 32-bit Int and 32-bit Float, C >= 1
\* equal-length channels and rate R, the buffer encode returns holds format
\* code 1 (3 for 32-bit Float), channel count C, sample rate R, byte rate
\* R * C * bitDepth / 8, block align C * bitDepth / 8, bits per sample
\* bitDepth, data size = buffer length - 44 and size field = length - 8.
C9_HeaderFields ==
    (wavEnc.done /\ wavIn.format \in {Fmt16Int, Fmt24Int, Fmt32Int, Fmt32Float}
                 /\ Len(wavIn.channelData) >= 1)
    => /\ ~wavEnc.threw
       /\ Len(wavEnc.bytes) >= 44
       /\ LET h == HeaderFields(wavEnc.bytes)
              C == Len(wavIn.channelData)
              R == wavIn.sampleRate
              bitDepth == FormatBitDepth(wavIn.format)
          IN /\ h.format = (IF wavIn.format = Fmt32Float THEN 3 ELSE 1)
             /\ h.channels = C
             /\ h.sampleRate = R
             /\ 8 * h.bytesPerSec = R * C * bitDepth
             /\ 8 * h.bytesPerBlock = C * bitDepth
             /\ h.bitsPerSample = bitDepth
             /\ h.sampleLength = Len(wavEnc.bytes) - 44
             /\ h.fileSize = Len(wavEnc.bytes) - 8

\* Stereo 24-bit audio of at least one frame has been encoded: block
\* align 6, bits per sample 24.
C9_Witness ==
    /\ wavEnc.done
    /\ ~wavEnc.threw
    /\ wavIn.format = Fmt24Int
    /\ Len(wavIn.channelData) = 2
    /\ Len(wavIn.channelData[1]) >= 1
    /\ HeaderFields(wavEnc.bytes).bytesPerBlock = 6
    /\ HeaderFields(wavEnc.bytes).bitsPerSample = 24

\* A decoded integer sample data (of bits bits) is within one step of
\* k / 4: |data - k * S / 4| <= 1 for the divisor S the decoder uses.
NearQuarters(k, data, bits) ==
    IF k = 0 THEN data \in {-1, 0, 1}
    ELSE IF (k > 0) # (data >= 0) THEN FALSE
    ELSE LET S4 == IF data < 0 THEN 2 ^ (bits - 3) ELSE 2 ^ (bits - 3) - 1
             r == IF data < 0 THEN 0 ELSE 3
             t == k * S4 + ((k * r) \div 4)
             f == (k * r) % 4
             e == data - t
         IN  /\ e >= -1
             /\ e <= 2
             /\ 4 * e - f >= -4
             /\ 4 * e - f <= 4

\* A decoded sample y against the sample x that was encoded.
SampleRoundTrips(x, y, format) ==
    IF format = Fmt32Float
    THEN y.kind = "float" /\ y.bytes = x
    ELSE /\ y.kind = "int"
         /\ y.bits = FormatBitDepth(format)
         /\ NearQuarters(F32Quarters(x), y.data, y.bits)

\* C10: for every supported format and equal-length channels with samples
\* in [-1, 1], decode(encode(channels, rate, format)) returns the same
\* sample rate, the same number of channels and frames, and every sample
\* within one quantization step of the original (equal for 32-bit Float).
C10_DecodeOfEncode ==
    /\ wavEnc.done => ~wavEnc.threw
    /\ wavDec.done =>
         /\ ~wavDec.threw
         /\ ~wavDec.hung
         /\ wavDec.sampleRate = wavIn.sampleRate
         /\ Len(wavDec.channelData) = Len(wavIn.channelData)
         /\ \A ch \in DOMAIN wavIn.channelData :
              /\ Len(wavDec.channelData[ch]) = Len(wavIn.channelData[ch])
              /\ \A i \in DOMAIN wavIn.channelData[ch] :
                   SampleRoundTrips(wavIn.channelData[ch][i],
                                    wavDec.channelData[ch][i], wavIn.format)

\* The file is well-formed integer PCM: good magic, a fmt chunk of format
\* code 1 before the data chunk.
WellFormedIntPCM(f) ==
    /\ f.magic = TagRIFF
    /\ f.form = TagWAVE
    /\ f.fmtAt = "before"
    /\ f.code = 1

\* A stored sample lies in [-1, 1].  data / S is compared exactly; the
\* rounding to binary32 keeps a quotient inside [-1, 1] inside, and
\* 8388608 / 8388607 rounds to 1 + 2^-23.
\* (-2^(bits-1) <= data <= 2^(bits-1) - 1, written on data \div 2 to stay
\* inside 32 bits.)
InUnitRange(y) ==
    /\ y.kind = "int"
    /\ y.data \div 2 <= 2 ^ (y.bits - 2) - 1
    /\ y.data \div 2 >= 0 - 2 ^ (y.bits - 2)

\* C11: for every well-formed integer-PCM WAV input (8, 16, 24 or 32 bit,
\* any raw sample value, mono or stereo) every sample of every channel
\* decode returns lies in [-1, 1].
C11_DecodedInUnitRange ==
    (wavDec.done /\ WellFormedIntPCM(riff) /\ riff.pre = <<>> /\ riff.post = <<>>)
    => /\ ~wavDec.threw
       /\ \A ch \in DOMAIN wavDec.channelData :
            \A i \in DOMAIN wavDec.channelData[ch] :
                InUnitRange(wavDec.channelData[ch][i])

\* The file has good magic and a fmt chunk, of a format decode has a
\* decoder for, before its data chunk.
FmtPrecedesData(f) ==
    /\ f.magic = TagRIFF
    /\ f.form = TagWAVE
    /\ f.fmtAt = "before"
    /\ f.code \in {1, 3}
    /\ lookup(f.bits, f.code = 3)

\* C12: for a RIFF/WAVE input whose fmt chunk precedes the first data
\* chunk, with any unknown chunks before the data chunk and any chunks
\* after it, decode returns the sample rate and channel count of the fmt
\* chunk and every channel has floor(dataSize / blockAlign) samples.
C12_SkipsUnknownChunks ==
    (wavDec.done /\ FmtPrecedesData(riff))
    => /\ ~wavDec.threw
       /\ ~wavDec.hung
       /\ wavDec.sampleRate = RiffSampleRate(riff)
       /\ Len(wavDec.channelData) = riff.channels
       /\ \A ch \in DOMAIN wavDec.channelData :
            Len(wavDec.channelData[ch])
              = Len(Flatten(riff.data)) \div ((riff.channels * riff.bits) \div 8)

EntryInRange(e, arenaLength) ==
    /\ e.indexOffset < arenaLength
    /\ e.indexOffset + e.sampleCount * e.channelCount <= arenaLength

\* Entry i of dictionary d has an offset beyond the arena and every other
\* entry is in range.
OnlyOffsetBeyond(d, arena, i) ==
    /\ d[i].indexOffset > Len(arena)
    /\ \A j \in DOMAIN d : j # i => EntryInRange(d[j], Len(arena))

\* Dictionary d without its entry i.
WithoutEntry(d, i) ==
    [j \in 1..(Len(d) - 1) |-> IF j < i THEN d[j] ELSE d[j + 1]]

\* The fields of an entry that C14 names, with the key it is stored under.
EntryKept(e) ==
    [key |-> e.key, name |-> e.name, indexOffset |-> e.indexOffset,
     sampleCount |-> e.sampleCount, channelCount |-> e.channelCount,
     sampleRate |-> e.sampleRate]

\* C14: validate() on a container in which one entry's offset exceeds the
\* arena length, every other entry being in range, removes exactly that
\* entry: the others keep name, offset, sampleCount, channelCount and
\* sampleRate, and the arena is unchanged.
C14_ValidateRemovesOnlyBad ==
    [][\A i \in DOMAIN dict :
          (Validate /\ OnlyOffsetBeyond(dict, dataChunk, i))
          => /\ dataChunk' = dataChunk
             /\ Len(dict') = Len(dict) - 1
             /\ \A j \in DOMAIN dict' :
                  EntryKept(dict'[j]) = EntryKept(WithoutEntry(dict, i)[j])]_vars

\* validate() has removed the one entry whose offset was beyond the arena
\* from a container read with two entries.
C14_Witness ==
    /\ loaded.done
    /\ Len(loaded.tac.dict) = 2
    /\ \E i \in DOMAIN loaded.tac.dict :
         OnlyOffsetBeyond(loaded.tac.dict, loaded.tac.dataChunk, i)
    /\ Len(dict) = 1
    /\ dataChunk = loaded.tac.dataChunk
    /\ Len(dataChunk) >= 1

\* C15: removeEntry(n) for a name n that is not in the dictionary leaves
\* the dictionary, every entry's offset, the arena and dictLength unchanged.
C15_RemoveAbsentIsNoOp ==
    [][\A n \in Names :
          (~MapHas(dict, n) /\ RemoveEntry(n))
          => /\ dict' = dict
             /\ dataChunk' = dataChunk
             /\ dictLength' = dictLength]_vars

\* A container of two entries with samples in the arena that has no entry
\* of the third name: removeEntry of that name finds nothing.
C15_Witness ==
    /\ Len(dict) = 2
    /\ Len(dataChunk) >= 1
    /\ \E n \in Names : ~MapHas(dict, n)
    /\ dictLength > 0

\* The channels of wav do not all have the same number of samples.
UnequalChannels(wav) ==
    \E c, d \in DOMAIN wav.raw : Len(wav.raw[c]) # Len(wav.raw[d])

UnequalWavs == {wav \in Wavs : UnequalChannels(wav)}

\* C16: writeEntry(n, buf) with a buffer whose channels do not all have the
\* same number of samples writes nothing: the dictionary (including any
\* existing entry n), the arena and dictLength are unchanged.  (No step that
\* changes one of them is such a writeEntry.)
C16_UnequalChannelsRejected ==
    [][(dict' # dict \/ dataChunk' # dataChunk \/ dictLength' # dictLength)
       => \A n \in Names, wav \in UnequalWavs : ~WriteEntry(n, wav)]_vars

\* A container that holds an entry n, on which writeEntry(n, buf) with a
\* buffer of one sample in one channel and none in the other changes
\* nothing.
C16_Witness ==
    \E n \in Names, wav \in UnequalWavs :
        /\ MapHas(dict, n)
        /\ Len(dataChunk) >= 1
        /\ Len(Flatten(wav.raw)) >= 1
        /\ writeEntry(Tac, n, wav) = Tac

\* C17: no WAVCache operation throws because a file read, write or delete
\* failed or because the file content could not be decoded; after such a
\* failure the cache still answers read and entries from an in-memory
\* container.
C17_CacheNeverThrows ==
    /\ ~cache.threw
    /\ cache.constructed => cache.tacDefined

\* C18: after WAVCache.write(n, wav) whose file write fails, a following
\* read(n) returns wav's sample rate and samples and entries lists n, even
\* if an older version of the cache file is still readable on disk.
C18_MemoryIsTruthAfterFailedWrite ==
    cache.unsynced.some
    => /\ cache.answer.op = "read" /\ cache.answer.name = cache.unsynced.name
          => /\ cache.answer.sampleRate = cache.unsynced.sampleRate
             /\ cache.answer.channelData = cache.unsynced.raw
       /\ cache.answer.op = "entries"
          => \E i \in DOMAIN cache.answer.keys :
                 cache.answer.keys[i] = cache.unsynced.name

\* -1 <= x <= 1 on a binary32 value.
F32InUnit(x) ==
    /\ ~F32IsNaN(x)
    /\ \/ F32Exp(x) < 127
       \/ F32Exp(x) = 127 /\ F32Frac(x) = 0

\* C19: hasValidSampleCount is true exactly when all channels have the
\* same number of samples and every sample lies in [-1, 1].
C19_ValidSampleCountMeaning ==
    sampleCheck.done
    => (sampleCheck.value
        <=> /\ \A c, d \in DOMAIN wavIn.channelData :
                  Len(wavIn.channelData[c]) = Len(wavIn.channelData[d])
            /\ \A c \in DOMAIN wavIn.channelData :
                  \A i \in DOMAIN wavIn.channelData[c] :
                      F32InUnit(wavIn.channelData[c][i]))

\* The audio writeEntry accepts.
AcceptedWavs == {wav \in Wavs : hasValidSampleCount(wav)}

\* C20: writeEntry(n, buf) on a container that already holds an entry n
\* leaves the container in the same state (entries, offsets, arena and
\* dictLength) as removeEntry(n) followed by writeEntry(n, buf).
C20_OverwriteIsRemoveThenWrite ==
    [][\A n \in Names, wav \in AcceptedWavs :
          (MapHas(dict, n) /\ WriteEntry(n, wav))
          => LET t == writeEntry(removeEntry(Tac, n), n, wav)
             IN  /\ dict' = t.dict
                 /\ dataChunk' = t.dataChunk
                 /\ dictLength' = t.dictLength]_vars

\* C21: when validate() returns, every remaining entry lies within the
\* arena: 0 <= indexOffset < arena length and indexOffset + sampleCount *
\* channelCount <= arena length (validate makes at most two passes: the
\* second call runs with alreadyValidated and does not call itself).
C21_ValidatedEntriesInRange ==
    [][Validate
       => \A i \in DOMAIN dict' :
             /\ 0 <= dict'[i].indexOffset
             /\ EntryInRange(dict'[i], Len(dataChunk'))]_vars

\* C22: after validate() returns (here: inside encode()), dictLength is the
\* sum over the remaining entries of 15 + the encoded name length,
\* whatever dictLength was before the call.
C22_ValidateRecomputesDictLength ==
    encoded.done
    => dictLength =
           SumSeq([i \in DOMAIN dict |->
                      DICT_ENTRY_BASE_LENGTH + Len(TextEncode(dict[i].name))])

\* The dictionary d in the documented layout, entry after entry.
DictBytes(d) == Flatten([i \in DOMAIN d |-> FileEntryBytes(d[i])])

\* C23: the buffer encode() returns has 4 + dictLength + 4 * arena length
\* bytes; it starts with dictLength as a uint32, then holds the entries one
\* after the other, each as offset, sampleRate, sampleCount (uint32),
\* channelCount (uint16), nameLength (uint8) and the name bytes; the arena
\* follows from byte dictLength + 4 as packed 32-bit floats.
C23_EncodeLayout ==
    (encoded.done /\ ~encoded.threw)
    => /\ Len(encoded.bytes) = 4 + dictLength + 4 * Len(dataChunk)
       /\ SubSeq(encoded.bytes, 1, 4) = Uint32BE(dictLength)
       /\ SubSeq(encoded.bytes, 5, 4 + Len(DictBytes(dict))) = DictBytes(dict)
       /\ SubSeq(encoded.bytes, dictLength + 5, Len(encoded.bytes))
              = Flatten(dataChunk)

\* The bytes of the payload slot of frame f, channel c (both from 0) in an
\* encoded file of channelCount channels and width bytes a sample.
PayloadSlot(bytes, f, c, channelCount, width) ==
    SubSeq(bytes, 44 + (f * channelCount + c) * width + 1,
           44 + (f * channelCount + c + 1) * width)

\* C24: encode writes the sample of frame f, channel c at byte offset
\* 44 + (f * C + c) * bitDepth / 8: after the call every payload slot holds
\* the encoding of its own sample.
C24_SampleSlots ==
    (wavEnc.done /\ ~wavEnc.threw)
    => LET bits == Number(SubSeq(wavIn.format, 1, 2))
           float == wavIn.format[Len(wavIn.format) - 1] = "a"
           channelCount == Len(wavIn.channelData)
       IN  \A c \in 1..channelCount :
              \A f \in DOMAIN wavIn.channelData[c] :
                 PayloadSlot(wavEnc.bytes, f - 1, c - 1, channelCount,
                             bits.val \div 8)
                 = getEncoder(float, bits, wavIn.channelData[c][f])

\* The three little-endian bytes b as a 24-bit two's-complement integer:
\* bit 23 is the sign bit.
Signed24(b) ==
    LET v == b[1] + b[2] * 256 + b[3] * 65536
    IN  IF v >= 8388608 THEN v - 16777216 ELSE v

\* C26: 24-bit decoding takes bit 23 as the sign bit: a three-byte value v
\* with 0x800000 <= v <= 0xFFFFFF is decoded as (v - 2^24) / 8388608, a
\* smaller v as v / 8388607; 0x800000 decodes to -1.
C26_Bit23IsSign ==
    (wavDec.done /\ ~wavDec.threw /\ WellFormedIntPCM(riff) /\ riff.bits = 24)
    => \A ch \in DOMAIN wavDec.channelData :
          \A i \in DOMAIN wavDec.channelData[ch] :
             wavDec.channelData[ch][i]
             = IntSample(Signed24(riff.data[(i - 1) * riff.channels + ch]), 24)

\* C25: decoding a WAV whose fmt chunk declares a bits-per-sample value
\* outside {8, 16, 24, 32} does not fail: decode returns channel data.
C25_BadBitDepthCoerced ==
    (wavDec.done /\ riff.bits \notin {8, 16, 24, 32}
     /\ riff.channels > 0 /\ riff.fmtSize = 16 /\ riff.blockAlign > 0
     /\ riff.dataSize = Len(riff.payload)
     /\ Len(riff.payload) % (2 * riff.channels) = 0)
    => /\ ~wavDec.threw
       /\ ~wavDec.hung
       /\ Len(wavDec.channelData) = riff.channels

\* C27: decode terminates, with a result or a failure, on every input.
C27_DecodeTerminates == wavDec.done => ~wavDec.hung

\* C30: validate() (run by encode()) removes no entry from a container
\* built by accepted writeEntry calls and removeEntry calls only: every
\* entry, one of zero samples or zero channels included, is still in the
\* dictionary afterwards.
C30_ValidateKeepsWrittenEntries ==
    [][Encode => MapKeys(dict') = MapKeys(dict)]_vars

\* C28: in every state reached by writeEntry, removeEntry, validate and
\* TAC.from, each entry of the dictionary is stored under a key equal to
\* its name field, an entry whose name validate has shortened included.
C28_KeyIsName ==
    /\ \A i \in DOMAIN dict : dict[i].key = dict[i].name
    /\ \A i \in DOMAIN loaded.tac.dict :
          loaded.tac.dict[i].key = loaded.tac.dict[i].name

\* C29: for every entry encode() serializes, the nameLength validate left
\* is the number of bytes of the entry's name and fits one byte (at most
\* 255), so the byte written for it does not wrap modulo 256.
C29_NameLengthFitsByte ==
    encoded.done
    => \A i \in DOMAIN dict :
          /\ dict[i].nameLength <= 255
          /\ dict[i].nameLength = Len(TextEncode(dict[i].name))

====
